---- MODULE Spec2Model ----
(***************************************************************************)
(* A model of the Mira-AI proxy gateway (src-tauri/src/modules):           *)
(*   - the account pool of the two vendors (kiro_proxy = Vendor-K,         *)
(*     antigravity_proxy = Vendor-A): account_pool.rs                      *)
(*   - the service facade around it: service.rs                            *)
(*   - the retry loop of a chat request: server.rs                         *)
(*   - the stats store: stats.rs                                           *)
(* An Option<T> of the source is a sequence of length 0 (None) or 1 (Some).*)
(***************************************************************************)
EXTENDS Integers, Sequences, FiniteSets, TLC

VARIABLES
    vendor,     \* "A" (antigravity_proxy) or "K" (kiro_proxy): which module runs
    now,        \* chrono::Utc::now().timestamp()
    env_steps,  \* how many bounded steps the environment has taken
    store,      \* the account store: what list_accounts() would return
    current_id, \* account::get_current_account_id() (Vendor-A)
    config,     \* RuntimeState.config
    pool,       \* RuntimeState.account_pool: [order, accounts, cursor]
    running,    \* RuntimeState.status.running
    last,       \* the last pool/service operation, its arguments and its result
    quota_mark, \* the latest record_error(id, true) that hit an account: Some([id, at])
    run,        \* results of the consecutive next_account calls of a rotation
    run_cursor, \* the cursor before the first call of that rotation
    req,        \* the chat request being handled (server.rs)
    stats,      \* RuntimeState.stats: the aggregate and the log ring
    server,     \* status.host/port, the bound listener, and what the last service call
                \* emitted and did: [status_host, status_port, listener, events, steps]
    sse,        \* one streaming response: what was sent on its channel, and the handler's locals
    keys,       \* config.api_key and config.api_keys (Vendor-K): [api_key, api_keys]
    recorded,   \* stats.rs alone: every log handed to the store since its ring was last empty
    conc,       \* service calls running side by side: each caller's position and locals,
                \* and the locks, handles and tasks they share
    tok         \* Vendor-A token refresh: the account's token, the upstream's view of
                \* it, and the retry loop's position around refresh_account_token

vars == <<vendor, now, env_steps, store, current_id, config, pool, running,
          last, quota_mark, run, run_cursor, req, stats, server, sse, keys, recorded,
          conc, tok>>

\* the variables the pool, the service and the retry loop never touch
ringVars == <<recorded>>
authVars == <<keys>>
streamVars == <<sse>>
concVars == <<conc>>
tokVars == <<tok>>
extVars == <<ringVars, authVars, streamVars, concVars, tokVars>>
\* and what the stats store, and the API-key registry, never touch of them
notRing == <<authVars, streamVars, concVars, tokVars, server>>
notAuth == <<ringVars, streamVars, concVars, tokVars, server>>
notStream == <<ringVars, authVars, concVars, tokVars, server>>

\* the state outside the account pool
serviceVars == <<current_id, running, req, stats>>

----------------------------------------------------------------------------
(* Bounds of the model *)

\* how many steps of the kinds that grow the state without limit (the clock
\* advancing, a store edit, a record_error or record_success, whose counters
\* are u64) one behaviour of the pool takes
MaxEnvSteps == 2

Accounts == {"a1", "a2", "a3"}
\* the order in which list_accounts() returns the stored accounts
StoreOrder == <<"a1", "a2", "a3">>
Vendors == {"A", "K"}

None == <<>>
Some(x) == <<x>>
IsSome(o) == Len(o) = 1
Option(S) == {None} \cup {Some(x) : x \in S}

----------------------------------------------------------------------------
(* Program constants *)

KIRO_COOLDOWN_QUOTA == 3600
ANTIGRAVITY_COOLDOWN_QUOTA == 120
COOLDOWN_TRANSIENT == 45

\* record_error: let cooldown_seconds = if quota_error { .. } else { 45 }
cooldown_seconds(v, quota_error) ==
    IF quota_error
    THEN (IF v = "K" THEN KIRO_COOLDOWN_QUOTA ELSE ANTIGRAVITY_COOLDOWN_QUOTA)
    ELSE COOLDOWN_TRANSIENT

----------------------------------------------------------------------------
(* The account store and the configuration *)

\* a stored account: "ok" is usable; "disabled" is acc.disabled (Vendor-A) or an
\* unusable status / status_reason (Vendor-K); "notoken" has an empty
\* access_token; "absent" is not listed at all
StoreStatus == {"ok", "disabled", "notoken", "absent"}

SelectedChoices == {<<>>, <<"a2">>, <<"a3", "a1">>}

SeqToSet(s) == {s[i] : i \in 1..Len(s)}

\* sync_accounts: the filter applied to one stored account
passes_filter(st, cfg, id) ==
    /\ st[id] = "ok"
    /\ (cfg.selected_account_ids = <<>> \/ id \in SeqToSet(cfg.selected_account_ids))

RECURSIVE FilterOrder(_, _, _)
FilterOrder(st, cfg, s) ==
    IF s = <<>> THEN <<>>
    ELSE IF passes_filter(st, cfg, Head(s))
         THEN <<Head(s)>> \o FilterOrder(st, cfg, Tail(s))
         ELSE FilterOrder(st, cfg, Tail(s))

NewPoolAccount == [request_count |-> 0, error_count |-> 0, cooldown_until |-> None]

EmptyPool == [order |-> <<>>, accounts |-> [id \in {} |-> NewPoolAccount], cursor |-> 0]

PoolIds(p) == DOMAIN p.accounts

\* a sync_accounts that starts every account anew
sync_accounts_forgetting(p, st, cfg) ==
    LET order == FilterOrder(st, cfg, StoreOrder)
        ids == SeqToSet(order)
        accounts == [id \in ids |-> NewPoolAccount]
    IN [order |-> order,
        accounts |-> accounts,
        cursor |-> IF p.cursor >= Len(order) THEN 0 ELSE p.cursor]

\* a sync_accounts that leaves the cursor where it was
sync_accounts_keeps_cursor(p, st, cfg) ==
    LET order == FilterOrder(st, cfg, StoreOrder)
        ids == SeqToSet(order)
        accounts == [id \in ids |->
                        IF id \in PoolIds(p)
                        THEN [request_count |-> p.accounts[id].request_count,
                              error_count |-> p.accounts[id].error_count,
                              cooldown_until |-> p.accounts[id].cooldown_until]
                        ELSE NewPoolAccount]
    IN [order |-> order,
        accounts |-> accounts,
        cursor |-> p.cursor]

\* AccountPool::sync_accounts
sync_accounts(p, st, cfg) ==
    LET order == FilterOrder(st, cfg, StoreOrder)
        ids == SeqToSet(order)
        accounts == [id \in ids |->
                        IF id \in PoolIds(p)
                        THEN [request_count |-> p.accounts[id].request_count,
                              error_count |-> p.accounts[id].error_count,
                              cooldown_until |-> p.accounts[id].cooldown_until]
                        ELSE NewPoolAccount]
    IN [order |-> order,
        accounts |-> accounts,
        cursor |-> IF p.cursor >= Len(order) THEN 0 ELSE p.cursor]

\* in_cooldown with the comparison turned around
in_cooldown_flipped(entry, t) ==
    IsSome(entry.cooldown_until) /\ entry.cooldown_until[1] < t

\* candidate.cooldown_until.map(|deadline| deadline > now).unwrap_or(false)
in_cooldown(entry, t) ==
    IsSome(entry.cooldown_until) /\ entry.cooldown_until[1] > t

\* the key of shortest_cooldown: entry.cooldown_until.unwrap_or(now) - now
cooldown_key(entry, t) ==
    (IF IsSome(entry.cooldown_until) THEN entry.cooldown_until[1] ELSE t) - t

\* a shortest_cooldown that takes the account with the greatest key
shortest_cooldown_longest(p, t) ==
    {Some(id) : id \in {i \in PoolIds(p) :
        \A j \in PoolIds(p) : cooldown_key(p.accounts[i], t) >= cooldown_key(p.accounts[j], t)}}

\* AccountPool::shortest_cooldown: min_by_key over the values of a HashMap, whose
\* iteration order is arbitrary: any account with the least key may come out
shortest_cooldown(p, t) ==
    {Some(id) : id \in {i \in PoolIds(p) :
        \A j \in PoolIds(p) : cooldown_key(p.accounts[i], t) <= cooldown_key(p.accounts[j], t)}}

\* the single-account branch of next_account, once the preferred candidate is known
single_pick(p, t, candidate) ==
    IF in_cooldown(p.accounts[candidate], t)
    THEN shortest_cooldown(p, t)
    ELSE {Some(candidate)}

\* next_single without the preference: always order.first()
next_single_first(v, p, cfg, cur, t) ==
    {[ret |-> r, cursor |-> p.cursor] : r \in single_pick(p, t, p.order[1])}

\* next_account with enable_multi_account = false; the cursor is not touched.
\* Vendor-K prefers config.selected_account_ids.first(), Vendor-A current_account_id;
\* both fall back to order.first()
next_single(v, p, cfg, cur, t) ==
    LET wanted == IF v = "K"
                  THEN (IF cfg.selected_account_ids = <<>> THEN None
                        ELSE Some(cfg.selected_account_ids[1]))
                  ELSE cur
        candidate == IF IsSome(wanted) /\ wanted[1] \in PoolIds(p)
                     THEN wanted[1]
                     ELSE p.order[1]
    IN {[ret |-> r, cursor |-> p.cursor] : r \in single_pick(p, t, candidate)}

\* the rotation loop returning without storing the advanced cursor
RECURSIVE next_multi_stuck(_, _, _, _)
next_multi_stuck(p, t, cursor, left) ==
    IF left = 0
    THEN {[ret |-> r, cursor |-> cursor] : r \in shortest_cooldown(p, t)}
    ELSE LET idx == cursor % Len(p.order)
             advanced == (cursor + 1) % Len(p.order)
             account_id == p.order[idx + 1]
         IN IF in_cooldown(p.accounts[account_id], t)
            THEN next_multi_stuck(p, t, advanced, left - 1)
            ELSE {[ret |-> Some(account_id), cursor |-> cursor]}

\* the rotation loop of next_account: `left` iterations remain
RECURSIVE next_multi(_, _, _, _)
next_multi(p, t, cursor, left) ==
    IF left = 0
    THEN {[ret |-> r, cursor |-> cursor] : r \in shortest_cooldown(p, t)}
    ELSE LET idx == cursor % Len(p.order)
             advanced == (cursor + 1) % Len(p.order)
             account_id == p.order[idx + 1]
         IN IF in_cooldown(p.accounts[account_id], t)
            THEN next_multi(p, t, advanced, left - 1)
            ELSE {[ret |-> Some(account_id), cursor |-> advanced]}

\* AccountPool::next_account: the set of its possible outcomes [ret, cursor]
next_account(v, p, cfg, cur, t) ==
    IF p.order = <<>>
    THEN {[ret |-> None, cursor |-> p.cursor]}
    ELSE IF ~cfg.enable_multi_account
         THEN next_single(v, p, cfg, cur, t)
         ELSE next_multi(p, t, p.cursor, Len(p.order))

\* AccountPool::record_success
record_success(p, id) ==
    IF id \in PoolIds(p)
    THEN [p EXCEPT !.accounts[id] =
            [request_count |-> @.request_count + 1,
             error_count |-> 0,
             cooldown_until |-> None]]
    ELSE p

\* AccountPool::record_error
record_error(v, p, id, quota_error, t) ==
    IF id \in PoolIds(p)
    THEN [p EXCEPT !.accounts[id] =
            [request_count |-> @.request_count,
             error_count |-> @.error_count + 1,
             cooldown_until |-> Some(t + cooldown_seconds(v, quota_error))]]
    ELSE p

\* AccountPool::update_account: the entry of a pooled account gets the new
\* account data (token, expiry), which the pool of the model does not carry;
\* an id that is not pooled is not inserted
update_account(p, id) ==
    IF id \in PoolIds(p)
    THEN [p EXCEPT !.accounts[id] =
            [request_count |-> @.request_count,
             error_count |-> @.error_count,
             cooldown_until |-> @.cooldown_until]]
    ELSE p

----------------------------------------------------------------------------
(* The account pool on its own: the public operations of AccountPool, called *)
(* in any order, with the clock, the store and the configuration changing.   *)

DefaultConfig == [host |-> "127.0.0.1", port |-> 5580,
                  enable_multi_account |-> TRUE,
                  selected_account_ids |-> <<>>,
                  max_retries |-> 3,
                  retry_delay_ms |-> 1000,
                  preferred_endpoint |-> None]

NoOp == [op |-> "none", cur |-> None, ret |-> None]

\* no service call is in flight
NoConc == [calls |-> <<>>]

\* no token refresh is modelled
NoTok == [pc |-> "none"]

\* no chat request is being handled.  The fields up to `client` are the
\* locals of the handler; the rest records what the handler has done
IdleReq == [pc |-> "idle", stream |-> FALSE, attempt |-> 0, account |-> None,
            endpoint |-> 1, refreshed_once |-> FALSE,
            retried_without_project |-> FALSE, last_error |-> None,
            client |-> "none",
            takes |-> 0, calls |-> 0, attempt_calls |-> 0, refreshes |-> 0, logs |-> 0,
            last_log |-> None, last_status |-> None, tried |-> {},
            no_account |-> FALSE, project_failed |-> FALSE, quota_hit |-> None, after_quota |-> FALSE,
            fatal_seen |-> FALSE, after_fatal |-> FALSE,
            auth_errors |-> 0, auth_unrefreshed |-> FALSE,
            refresh_at |-> 0, recall |-> "none", api_key_id |-> None]
\* RuntimeState::new: the status carries the configured address, no server task
NoServer == [status_host |-> DefaultConfig.host, status_port |-> DefaultConfig.port,
             listener |-> None, events |-> <<>>, steps |-> <<>>]

\* no streaming response has begun
IdleSse == [pc |-> "idle", dialect |-> "openai", format |-> "reasoning_content",
            out |-> <<>>, msgs |-> <<>>, account |-> None, attempt |-> 0,
            content_block_index |-> 0, has_text_block |-> FALSE,
            has_tool_calls |-> FALSE, tool_calls |-> 0, result |-> "none",
            connected |-> TRUE, send_failed |-> FALSE]

\* the status after start() under the default configuration
RunningServer ==
    [NoServer EXCEPT !.listener = Some([host |-> DefaultConfig.host,
                                        port |-> DefaultConfig.port])]

\* KiroProxyConfig::default(): api_key None, api_keys empty
NoKeys == [api_key |-> None, api_keys |-> <<>>]

\* ProxyAggregateStats::default().  total_credits is Vendor-K's; a Vendor-A
\* log carries no credits.
DefaultAggregate ==
    [total_requests |-> 0, success_requests |-> 0, failed_requests |-> 0,
     total_input_tokens |-> 0, total_output_tokens |-> 0, total_credits |-> 0,
     by_model |-> <<>>, daily |-> <<>>]

\* StatsStore { aggregate, logs, max_logs: 2000 }
StatsStore(aggregate, logs) ==
    [total_requests |-> aggregate.total_requests,
     success_requests |-> aggregate.success_requests,
     failed_requests |-> aggregate.failed_requests,
     total_input_tokens |-> aggregate.total_input_tokens,
     total_output_tokens |-> aggregate.total_output_tokens,
     total_credits |-> aggregate.total_credits,
     by_model |-> aggregate.by_model,
     daily |-> aggregate.daily,
     logs |-> logs]

\* StatsStore::default()
EmptyStats == StatsStore(DefaultAggregate, <<>>)

PoolInit ==
    /\ vendor \in Vendors
    /\ now = 0
    /\ env_steps = 0
    /\ store = [id \in Accounts |-> "ok"]
    /\ current_id = None
    /\ config = DefaultConfig
    /\ pool = EmptyPool
    /\ running = FALSE
    /\ last = NoOp
    /\ quota_mark = None
    /\ run = <<>>
    /\ run_cursor = 0
    /\ req = IdleReq
    /\ stats = EmptyStats
    /\ recorded = <<>>
    /\ keys = NoKeys
    /\ sse = IdleSse
    /\ server = NoServer
    /\ tok = NoTok
    /\ conc = NoConc

\* the deadlines of the cooldowns in the pool
Deadlines(p) ==
    {p.accounts[id].cooldown_until[1] : id \in {i \in PoolIds(p) : IsSome(p.accounts[i].cooldown_until)}}

\* the clock moves onto a cooldown deadline (the first second at which
\* `deadline > now` is false), or to the second before it
Tick ==
    /\ env_steps < MaxEnvSteps
    /\ \E d \in Deadlines(pool) :
         \E t \in {d - 1, d} :
          /\ t > now
          /\ now' = t
    /\ env_steps' = env_steps + 1
    /\ last' = NoOp
    /\ UNCHANGED <<extVars, server, vendor, store, config, pool, quota_mark, run, run_cursor, serviceVars>>

\* the account store changes under the pool (login, logout, ban, token loss)
StoreEdit ==
    /\ env_steps < MaxEnvSteps
    /\ \E id \in Accounts, s \in StoreStatus :
          /\ store[id] # s
          /\ store' = [store EXCEPT ![id] = s]
    /\ env_steps' = env_steps + 1
    /\ last' = NoOp
    /\ UNCHANGED <<extVars, server, vendor, now, config, pool, quota_mark, run, run_cursor, serviceVars>>

\* the configuration the pool is called with changes
SetConfig ==
    /\ \E m \in BOOLEAN, sel \in SelectedChoices :
          /\ (m # config.enable_multi_account \/ sel # config.selected_account_ids)
          /\ config' = [config EXCEPT !.enable_multi_account = m,
                                      !.selected_account_ids = sel]
    /\ last' = NoOp
    /\ UNCHANGED <<extVars, server, vendor, now, env_steps, store, pool, quota_mark, run, run_cursor,
                   serviceVars>>

\* a rotation ends when the order of the pool changes
PoolSync ==
    /\ pool' = sync_accounts(pool, store, config)
    /\ run' = IF pool'.order = pool.order THEN run ELSE <<>>
    /\ run_cursor' = IF pool'.order = pool.order THEN run_cursor ELSE 0
    /\ last' = NoOp
    /\ UNCHANGED <<extVars, server, vendor, now, env_steps, store, config, quota_mark, serviceVars>>

\* the rotation being observed: consecutive next_account calls made in
\* multi-account mode on a pool that had no account in cooldown when the
\* rotation began; a rotation has as many calls as the pool has accounts
RunAfter(p, t, cfg, ret) ==
    IF cfg.enable_multi_account /\ p.order # <<>>
    THEN (IF run # <<>> /\ Len(run) < Len(p.order)
          THEN [run |-> Append(run, ret), cursor |-> run_cursor]
          ELSE IF \A id \in PoolIds(p) :
                    ~(IsSome(p.accounts[id].cooldown_until)
                      /\ p.accounts[id].cooldown_until[1] > t)
               THEN [run |-> <<ret>>, cursor |-> p.cursor]
               ELSE [run |-> <<>>, cursor |-> 0])
    ELSE [run |-> <<>>, cursor |-> 0]

PoolNext ==
    /\ \E cur \in (IF vendor = "A" /\ ~config.enable_multi_account
                   THEN Option(Accounts) ELSE {None}) :
         \E o \in next_account(vendor, pool, config, cur, now) :
          /\ pool' = [pool EXCEPT !.cursor = o.cursor]
          /\ last' = [op |-> "next_account", cur |-> cur, ret |-> o.ret]
          /\ run' = RunAfter(pool, now, config, o.ret).run
          /\ run_cursor' = RunAfter(pool, now, config, o.ret).cursor
    /\ UNCHANGED <<extVars, server, vendor, now, env_steps, store, config, quota_mark, serviceVars>>

PoolRecordSuccess ==
    /\ env_steps < MaxEnvSteps
    /\ \E id \in Accounts :
          pool' = record_success(pool, id)
    /\ env_steps' = env_steps + 1
    /\ last' = NoOp
    /\ UNCHANGED <<extVars, server, vendor, now, store, config, quota_mark, run, run_cursor, serviceVars>>

\* a record_error ends the rotation being observed
PoolRecordError ==
    /\ env_steps < MaxEnvSteps
    /\ \E id \in Accounts, quota_error \in BOOLEAN :
          /\ pool' = record_error(vendor, pool, id, quota_error, now)
          /\ quota_mark' = IF quota_error /\ id \in PoolIds(pool)
                           THEN Some([id |-> id, at |-> now])
                           ELSE quota_mark
    /\ env_steps' = env_steps + 1
    /\ run' = <<>>
    /\ run_cursor' = 0
    /\ last' = NoOp
    /\ UNCHANGED <<extVars, server, vendor, now, store, config, serviceVars>>

NextPool ==
    \/ Tick
    \/ StoreEdit
    \/ SetConfig
    \/ PoolSync
    \/ PoolNext
    \/ PoolRecordSuccess
    \/ PoolRecordError

SpecPool == PoolInit /\ [][NextPool]_vars

----------------------------------------------------------------------------
(* The stats store: stats.rs, the same in both vendors *)

MaxLogs == 2000

\* ProxyModelStats::default(), ProxyDailyStats::default()
EmptyBucket == [requests |-> 0, input_tokens |-> 0, output_tokens |-> 0, credits |-> 0]

\* map.entry(key).or_insert_with(default) and the four additions of record
add_to_bucket(map, key, log) ==
    LET entry == IF key \in DOMAIN map THEN map[key] ELSE EmptyBucket
    IN  [k \in DOMAIN map \cup {key} |->
            IF k = key
            THEN [requests |-> entry.requests + 1,
                  input_tokens |-> entry.input_tokens + log.input_tokens,
                  output_tokens |-> entry.output_tokens + log.output_tokens,
                  credits |-> entry.credits + log.credits]
            ELSE map[k]]

SecondsPerDay == 86400

\* the "%Y-%m-%d" of a timestamp: the day it falls in
day_key(timestamp) == timestamp \div SecondsPerDay

\* StatsStore::record with the failed_requests branch left out
record_success_only(st, log) ==
    [total_requests |-> st.total_requests + 1,
     success_requests |-> st.success_requests + (IF log.success THEN 1 ELSE 0),
     failed_requests |-> st.failed_requests,
     total_input_tokens |-> st.total_input_tokens + log.input_tokens,
     total_output_tokens |-> st.total_output_tokens + log.output_tokens,
     total_credits |-> st.total_credits + log.credits,
     by_model |-> IF IsSome(log.model)
                  THEN add_to_bucket(st.by_model, log.model[1], log)
                  ELSE st.by_model,
     daily |-> add_to_bucket(st.daily, day_key(log.timestamp), log),
     logs |-> IF Len(st.logs) + 1 > MaxLogs
              THEN Tail(Append(st.logs, log))
              ELSE Append(st.logs, log)]

\* StatsStore::record.  saturating_add on a u64 is + below 2^64 - 1.
record(st, log) ==
    [total_requests |-> st.total_requests + 1,
     success_requests |-> st.success_requests + (IF log.success THEN 1 ELSE 0),
     failed_requests |-> st.failed_requests + (IF log.success THEN 0 ELSE 1),
     total_input_tokens |-> st.total_input_tokens + log.input_tokens,
     total_output_tokens |-> st.total_output_tokens + log.output_tokens,
     total_credits |-> st.total_credits + log.credits,
     by_model |-> IF IsSome(log.model)
                  THEN add_to_bucket(st.by_model, log.model[1], log)
                  ELSE st.by_model,
     daily |-> add_to_bucket(st.daily, day_key(log.timestamp), log),
     logs |-> IF Len(st.logs) + 1 > MaxLogs
              THEN Tail(Append(st.logs, log))
              ELSE Append(st.logs, log)]

\* reset that zeroes the request counters and keeps the rest
reset_counters_only(st) ==
    [st EXCEPT !.total_requests = 0, !.success_requests = 0, !.failed_requests = 0]

\* StatsStore::reset: self.aggregate = ProxyAggregateStats::default()
reset(st) == StatsStore(DefaultAggregate, st.logs)

\* StatsStore::clear_logs
clear_logs(st) == [st EXCEPT !.logs = <<>>]

\* the while loop of from_state: pop_front while more than 2000 are left
RECURSIVE pop_front_over(_, _)
pop_front_over(logs, max) ==
    IF Len(logs) > max THEN pop_front_over(Tail(logs), max) ELSE logs

\* from_state that keeps the head of the persisted logs, not their tail
from_state_head(aggregate, logs) ==
    StatsStore(aggregate, IF Len(logs) > MaxLogs THEN SubSeq(logs, 1, MaxLogs) ELSE logs)

\* StatsStore::from_state
from_state(aggregate, logs) == StatsStore(aggregate, pop_front_over(logs, MaxLogs))

\* how many record calls one behaviour of the stats store makes
MaxRecords == 4

Counters(st) == [total_requests |-> st.total_requests,
                 success_requests |-> st.success_requests,
                 failed_requests |-> st.failed_requests]

\* the requests that get logged: a success, a failure, a failure whose log
\* names no model
LogInputs ==
    {[success |-> TRUE, model |-> Some("m1"), input_tokens |-> 2, output_tokens |-> 1],
     [success |-> FALSE, model |-> Some("m2"), input_tokens |-> 0, output_tokens |-> 0],
     [success |-> FALSE, model |-> None, input_tokens |-> 0, output_tokens |-> 0]}

HalfDay == 43200

\* ProxyRequestLog of the n-th request: requests arrive half a day apart
RequestLog(input, n) ==
    [success |-> input.success, model |-> input.model,
     input_tokens |-> input.input_tokens, output_tokens |-> input.output_tokens,
     credits |-> IF vendor = "K" THEN input.output_tokens ELSE 0,
     timestamp |-> HalfDay * n]

\* one record call, while fewer than max have been made
RecordUpTo(max) ==
    /\ env_steps < max
    /\ \E input \in LogInputs :
          LET log == RequestLog(input, Len(recorded) + 1)
          IN  /\ stats' = record(stats, log)
              /\ recorded' = Append(recorded, log)
              /\ last' = [op |-> "record", success |-> log.success,
                          before |-> Counters(stats)]
    /\ env_steps' = env_steps + 1
    /\ UNCHANGED <<notRing, vendor, now, store, current_id, config, pool, running,
                   quota_mark, run, run_cursor, req>>

StatsRecord == RecordUpTo(MaxRecords)

StatsReset ==
    /\ stats' = reset(stats)
    /\ last' = [op |-> "reset", before |-> stats]
    /\ UNCHANGED <<extVars, server, vendor, now, env_steps, store, current_id, config, pool, running,
                   quota_mark, run, run_cursor, req>>

StatsClearLogs ==
    /\ stats' = clear_logs(stats)
    /\ recorded' = <<>>
    /\ last' = [op |-> "clear_logs", before |-> stats]
    /\ UNCHANGED <<notRing, vendor, now, env_steps, store, current_id, config, pool, running,
                   quota_mark, run, run_cursor, req>>

NextStats ==
    \/ StatsRecord
    \/ StatsReset
    \/ StatsClearLogs

\* StatsStore::default()
SpecStats == PoolInit /\ [][NextStats]_vars

\* what load_request_logs() finds on disk: n logs written one after another
PersistedLogs(n) ==
    [i \in 1..n |-> RequestLog([success |-> (i % 2 = 0), model |-> Some("m1"),
                                input_tokens |-> 1, output_tokens |-> 1], i)]

\* the lengths of the persisted log file: empty, almost full, full, overfull
PersistedLens == {0, MaxLogs - 1, MaxLogs, MaxLogs + 2}

\* what load_persisted_stats() finds on disk
PersistedAggregates ==
    {DefaultAggregate,
     [DefaultAggregate EXCEPT !.total_requests = 3, !.success_requests = 2,
                              !.failed_requests = 1]}

\* ProxyService::init: the stats store is rebuilt from the persisted state
RingInit ==
    /\ vendor \in Vendors
    /\ now = 0
    /\ env_steps = 0
    /\ store = [id \in Accounts |-> "ok"]
    /\ current_id = None
    /\ config = DefaultConfig
    /\ pool = EmptyPool
    /\ running = FALSE
    /\ last = NoOp
    /\ quota_mark = None
    /\ run = <<>>
    /\ run_cursor = 0
    /\ req = IdleReq
    /\ \E aggregate \in PersistedAggregates, n \in PersistedLens :
          /\ stats = from_state(aggregate, PersistedLogs(n))
          /\ recorded = PersistedLogs(n)
    /\ keys = NoKeys
    /\ sse = IdleSse
    /\ server = NoServer
    /\ tok = NoTok
    /\ conc = NoConc

\* how many record calls follow a from_state
MaxRingRecords == 2

RingRecord == RecordUpTo(MaxRingRecords)

NextRing ==
    \/ RingRecord
    \/ StatsReset
    \/ StatsClearLogs

SpecRing == RingInit /\ [][NextRing]_vars

\* the last n elements of a sequence
LastN(s, n) == SubSeq(s, Len(s) - n + 1, Len(s))

\* C11: after any sequence of from_state, record and clear_logs the log ring
\* holds at most 2000 entries, and they are exactly the most recently
\* recorded logs in insertion order: the 2001st entry drops the oldest.
C11_RingKeepsNewest ==
    /\ Len(stats.logs) <= 2000
    /\ stats.logs = IF Len(recorded) > 2000 THEN LastN(recorded, 2000) ELSE recorded

\* a record found the ring full and made it drop its oldest entry
C11_Witness ==
    /\ last.op = "record"
    /\ Len(recorded) = 2001
    /\ Len(stats.logs) = 2000
    /\ stats.logs[1] = recorded[2]

\* C15: reset() zeroes every aggregate counter and empties by_model and daily
\* and leaves the log ring as it was; clear_logs() empties the log ring and
\* leaves the aggregate counters and the buckets as they were.
C15_ResetAndClear ==
    /\ last.op = "reset" =>
          /\ stats.total_requests = 0
          /\ stats.success_requests = 0
          /\ stats.failed_requests = 0
          /\ stats.total_input_tokens = 0
          /\ stats.total_output_tokens = 0
          /\ stats.total_credits = 0
          /\ DOMAIN stats.by_model = {}
          /\ DOMAIN stats.daily = {}
          /\ stats.logs = last.before.logs
    /\ last.op = "clear_logs" =>
          /\ stats.logs = <<>>
          /\ [stats EXCEPT !.logs = last.before.logs] = last.before

\* a reset found counters, both kinds of buckets and logs, and a clear_logs
\* came before it
C15_Witness ==
    /\ last.op = "reset"
    /\ last.before.total_input_tokens > 0
    /\ DOMAIN last.before.by_model # {}
    /\ DOMAIN last.before.daily # {}
    /\ Len(stats.logs) > 0
    /\ Len(stats.logs) < last.before.total_requests

\* C10: starting from an empty stats store, after any sequence of record,
\* reset and clear_logs, success_requests + failed_requests = total_requests;
\* every record raises total_requests by one and exactly one of
\* success_requests / failed_requests by one, as log.success says.
C10_CountersAddUp ==
    /\ stats.success_requests + stats.failed_requests = stats.total_requests
    /\ last.op = "record" =>
          /\ stats.total_requests = last.before.total_requests + 1
          /\ stats.success_requests =
                last.before.success_requests + (IF last.success THEN 1 ELSE 0)
          /\ stats.failed_requests =
                last.before.failed_requests + (IF last.success THEN 0 ELSE 1)

\* a failure was recorded after a success, a reset and a clear_logs had
\* taken place in between the records
C10_Witness ==
    /\ last.op = "record"
    /\ ~last.success
    /\ stats.success_requests >= 1
    /\ stats.failed_requests >= 1
    /\ Len(stats.logs) < stats.total_requests
    /\ env_steps > stats.total_requests

----------------------------------------------------------------------------
(* The service around the pool: service.rs.  Vendor-A (antigravity_proxy)   *)
(* and Vendor-K (kiro_proxy) differ in when they sync the pool.             *)

\* how often the account store is edited in one behaviour of the service
MaxSvcEdits == 1

\* the part of a configuration patch that the pool reads
ConfigPatches ==
    {[DefaultConfig EXCEPT !.enable_multi_account = m, !.selected_account_ids = sel] :
        m \in BOOLEAN, sel \in SelectedChoices}

\* emit_status_change: the event carries self.status()
emit_status_change(st) ==
    [st EXCEPT !.server.events =
        Append(@, [running |-> st.running, host |-> st.server.status_host,
                   port |-> st.server.status_port])]

\* what a service call did to the server task and the listener, in order
step(st, what) == [st EXCEPT !.server.steps = Append(@, what)]

\* a start() that does not look at status.running
start_unguarded(v, st, bind_ok) ==
    IF ~bind_ok
    THEN [state |-> step(st, "bind_failed"), ok |-> FALSE]
    ELSE [state |->
            emit_status_change(
              step([st EXCEPT !.running = TRUE,
                              !.server.status_host = st.config.host,
                              !.server.status_port = st.config.port,
                              !.server.listener =
                                  Some([host |-> st.config.host, port |-> st.config.port]),
                              !.pool = sync_accounts(st.pool, st.store, st.config)],
                   "bind")),
          ok |-> TRUE]

\* start(): returns at once when already running; otherwise binds the
\* listener (bind_ok: the address is free), sets running and the status
\* address, syncs the pool, emits the status and spawns the server task
start(v, st, bind_ok) ==
    IF st.running
    THEN [state |-> st, ok |-> TRUE]
    ELSE IF ~bind_ok
    THEN [state |-> step(st, "bind_failed"), ok |-> FALSE]
    ELSE [state |->
            emit_status_change(
              step([st EXCEPT !.running = TRUE,
                              !.server.status_host = st.config.host,
                              !.server.status_port = st.config.port,
                              !.server.listener =
                                  Some([host |-> st.config.host, port |-> st.config.port]),
                              !.pool = sync_accounts(st.pool, st.store, st.config)],
                   "bind")),
          ok |-> TRUE]

\* stop() that emits no status-change event
stop_silent(v, st) ==
    IF ~st.running
    THEN st
    ELSE step(step([st EXCEPT !.running = FALSE, !.server.listener = None],
                   "shutdown"), "join")

\* stop(): returns at once when not running; otherwise clears running, sends
\* the shutdown signal, joins the server task (which drops the listener) and
\* emits the status
stop(v, st) ==
    IF ~st.running
    THEN st
    ELSE emit_status_change(
           step(step([st EXCEPT !.running = FALSE, !.server.listener = None],
                     "shutdown"), "join"))

\* restart(): let _ = self.stop().await; self.start().await
restart(v, st, bind_ok) == start(v, stop(v, st), bind_ok)

\* apply_config_patch: Vendor-A stores the patch and syncs the pool with it,
\* and asks for a restart when the service runs and host or port changed;
\* Vendor-K stores the patch and asks for a restart whenever the service runs.
\* saved: the user configuration file could be written.
apply_config_patch(v, st, patch, saved) ==
    LET stored == [st EXCEPT !.config = patch,
                             !.server.status_host = patch.host,
                             !.server.status_port = patch.port]
    IN  IF v = "A"
        THEN [state |-> [stored EXCEPT !.pool = sync_accounts(st.pool, st.store, patch)],
              should_restart |-> st.running /\ (st.config.host # patch.host
                                                \/ st.config.port # patch.port),
              ok |-> saved]
        ELSE [state |-> stored,
              should_restart |-> st.running,
              ok |-> saved]

\* update_config
update_config(v, st, patch, saved, bind_ok) ==
    LET applied == apply_config_patch(v, st, patch, saved)
    IN  IF ~applied.ok THEN [state |-> applied.state, ok |-> FALSE]
        ELSE IF applied.should_restart THEN restart(v, applied.state, bind_ok)
        ELSE [state |-> emit_status_change(applied.state), ok |-> TRUE]

\* update_config_without_restart (Vendor-K; behind POST /admin/config)
update_config_without_restart(v, st, patch, saved) ==
    LET applied == apply_config_patch(v, st, patch, saved)
    IN  IF ~applied.ok THEN [state |-> applied.state, ok |-> FALSE]
        ELSE [state |-> emit_status_change(applied.state), ok |-> TRUE]

\* take_next_account: Vendor-A syncs the pool and passes the current account
\* id; Vendor-K calls next_account on the pool as it stands
take_next_account(v, st, cur, t) ==
    LET synced == IF v = "A" THEN sync_accounts(st.pool, st.store, st.config)
                  ELSE st.pool
    IN {[ret |-> o.ret, pool |-> [synced EXCEPT !.cursor = o.cursor]] :
           o \in next_account(v, synced, st.config, IF v = "A" THEN cur ELSE None, t)}

\* the runtime state of the service as one record; events and steps start
\* empty at every service call
SvcState == [running |-> running, config |-> config, pool |-> pool, store |-> store,
             server |-> [server EXCEPT !.events = <<>>, !.steps = <<>>]]

SvcStart ==
    /\ ~running
    /\ \E bind_ok \in BOOLEAN :
          LET o == start(vendor, SvcState, bind_ok)
          IN  /\ running' = o.state.running
              /\ pool' = o.state.pool
              /\ server' = o.state.server
              /\ last' = [op |-> "start", prev |-> "none", ret |-> None, ok |-> o.ok]
    /\ UNCHANGED <<extVars, vendor, now, env_steps, store, current_id, config,
                   quota_mark, run, run_cursor, req, stats>>

SvcStop ==
    /\ running
    /\ running' = stop(vendor, SvcState).running
    /\ server' = stop(vendor, SvcState).server
    /\ last' = [op |-> "stop", prev |-> "none", ret |-> None, ok |-> TRUE]
    /\ UNCHANGED <<extVars, vendor, now, env_steps, store, current_id, config, pool,
                   quota_mark, run, run_cursor, req, stats>>

\* update_config with a patch of the given set
UpdateConfigWith(patches) ==
    /\ \E patch \in patches, saved \in BOOLEAN, bind_ok \in BOOLEAN :
          LET o == update_config(vendor, SvcState, patch, saved, bind_ok)
          IN /\ running' = o.state.running
             /\ config' = o.state.config
             /\ pool' = o.state.pool
             /\ server' = o.state.server
             /\ last' = [op |-> "update_config", prev |-> "none", ret |-> None,
                         ok |-> o.ok, was_running |-> running, before |-> config,
                         listener |-> server.listener,
                         saved |-> saved, bind_ok |-> bind_ok]
    /\ UNCHANGED <<extVars, vendor, now, env_steps, store, current_id,
                   quota_mark, run, run_cursor, req, stats>>

\* the desktop command: <vendor>_proxy_update_config
SvcUpdateConfig == UpdateConfigWith(ConfigPatches)

\* POST /admin/config with a patch of the given set
AdminUpdateConfigWith(patches) ==
    /\ vendor = "K"
    /\ running
    /\ \E patch \in patches, saved \in BOOLEAN :
          LET o == update_config_without_restart(vendor, SvcState, patch, saved)
          IN /\ config' = o.state.config
             /\ pool' = o.state.pool
             /\ server' = o.state.server
             /\ last' = [op |-> "admin_update_config", prev |-> "none", ret |-> None,
                         ok |-> o.ok]
    /\ UNCHANGED <<extVars, vendor, now, env_steps, store, current_id, running,
                   quota_mark, run, run_cursor, req, stats>>

\* POST /admin/config: handle_admin_update_config, served while running
SvcAdminUpdateConfig == AdminUpdateConfigWith(ConfigPatches)

\* the desktop command: <vendor>_proxy_sync_accounts
SvcSyncAccounts ==
    /\ pool' = sync_accounts(pool, store, config)
    /\ last' = [op |-> "sync_accounts", prev |-> "none", ret |-> None]
    /\ UNCHANGED <<extVars, server, vendor, now, env_steps, store, current_id, running, config,
                   quota_mark, run, run_cursor, req, stats>>

\* take_next_account, called by the request handlers of the running server
SvcTakeNextAccount ==
    /\ running
    /\ \E o \in take_next_account(vendor, SvcState, current_id, now) :
          /\ pool' = o.pool
          /\ last' = [op |-> "take_next_account", prev |-> last.op, ret |-> o.ret]
    /\ UNCHANGED <<extVars, server, vendor, now, env_steps, store, current_id, running, config,
                   quota_mark, run, run_cursor, req, stats>>

\* an account is removed, disabled, banned or loses its token, or comes back
SvcStoreEdit ==
    /\ env_steps < MaxSvcEdits
    /\ \E id \in Accounts, s \in StoreStatus :
          /\ store[id] # s
          /\ store' = [store EXCEPT ![id] = s]
    /\ env_steps' = env_steps + 1
    /\ last' = [op |-> "store_edit", prev |-> "none", ret |-> None]
    /\ UNCHANGED <<extVars, server, vendor, now, current_id, running, config, pool,
                   quota_mark, run, run_cursor, req, stats>>

\* the user switches the current account (Vendor-A)
SvcSetCurrent ==
    /\ vendor = "A"
    /\ \E c \in Option(Accounts) :
          /\ c # current_id
          /\ current_id' = c
    /\ last' = [op |-> "set_current", prev |-> "none", ret |-> None]
    /\ UNCHANGED <<extVars, server, vendor, now, env_steps, store, running, config, pool,
                   quota_mark, run, run_cursor, req, stats>>

NextService ==
    \/ SvcStart
    \/ SvcStop
    \/ SvcUpdateConfig
    \/ SvcAdminUpdateConfig
    \/ SvcSyncAccounts
    \/ SvcTakeNextAccount
    \/ SvcStoreEdit
    \/ SvcSetCurrent

\* RuntimeState::new, then init(): the pool is synced with the stored accounts
ServiceInit ==
    /\ vendor \in Vendors
    /\ now = 0
    /\ env_steps = 0
    /\ store = [id \in Accounts |-> "ok"]
    /\ current_id = None
    /\ config = DefaultConfig
    /\ pool = sync_accounts(EmptyPool, store, config)
    /\ running = FALSE
    /\ last = NoOp
    /\ quota_mark = None
    /\ run = <<>>
    /\ run_cursor = 0
    /\ req = IdleReq
    /\ stats = EmptyStats
    /\ recorded = <<>>
    /\ keys = NoKeys
    /\ sse = IdleSse
    /\ server = NoServer
    /\ tok = NoTok
    /\ conc = NoConc

SpecService == ServiceInit /\ [][NextService]_vars

\* the addresses and one more field a configuration patch may carry
Hosts == {"127.0.0.1", "0.0.0.0"}
Ports == {5580, 5581}
LifecyclePatches ==
    {[DefaultConfig EXCEPT !.host = h, !.port = p, !.max_retries = r] :
        h \in Hosts, p \in Ports, r \in {3, 5}}

LcUpdateConfig == UpdateConfigWith(LifecyclePatches)

LcAdminUpdateConfig == AdminUpdateConfigWith(LifecyclePatches)

NextLifecycle ==
    \/ SvcStart
    \/ SvcStop
    \/ LcUpdateConfig
    \/ LcAdminUpdateConfig

\* start, stop and configuration updates, each call run to its end before
\* the next one begins
SpecLifecycle == ServiceInit /\ [][NextLifecycle]_vars

\* C16: update_config restarts the server if and only if the service is
\* running and the host or port of the new configuration differs from the
\* previous one; running with neither changed, the listener is left alone
\* (no stop, no rebind).  Read for the calls whose configuration was saved.
C16_RestartIffAddressChanged ==
    (last.op = "update_config" /\ last.saved) =>
        LET changed == last.before.host # config.host \/ last.before.port # config.port
        IN  /\ ("shutdown" \in SeqToSet(server.steps)) <=> (last.was_running /\ changed)
            /\ (last.was_running /\ ~changed) =>
                   /\ server.steps = <<>>
                   /\ server.listener = last.listener

C8_TakeNextSynced ==
    (last.op = "take_next_account" /\ IsSome(last.ret)) =>
        /\ store[last.ret[1]] = "ok"
        /\ (config.selected_account_ids = <<>>
            \/ last.ret[1] \in SeqToSet(config.selected_account_ids))

----------------------------------------------------------------------------
(* One chat request through the retry loop: server.rs.  The OpenAI and the  *)
(* Anthropic handlers of Vendor-K have the same control flow.               *)

\* the largest max_retries a configuration of the model carries
MaxRetries == 2

\* the status of an upstream error that carries no UPSTREAM_STATUS prefix
NoStatus == 0

\* what one upstream call can come back with: 200, or an error with its
\* status; a Vendor-A 400 may be "Invalid project resource name"
UpstreamResults(v) ==
    {[status |-> c, invalid_project |-> FALSE] : c \in {200, 400, 401, 403, 429, 500, NoStatus}}
    \cup (IF v = "A" THEN {[status |-> 400, invalid_project |-> TRUE]} ELSE {})

\* parse_upstream_status
parse_upstream_status(err) ==
    IF err.status = NoStatus THEN None ELSE Some(err.status)

unwrap_or(o, d) == IF IsSome(o) THEN o[1] ELSE d

\* kiro_api::ordered_endpoints; Vendor-A has the one generate_content endpoint
ordered_endpoints(v, preferred) ==
    IF v = "A" THEN <<"cloudcode">>
    ELSE IF IsSome(preferred) /\ preferred[1] = "amazonq"
         THEN <<"amazonq", "codewhisperer">>
         ELSE <<"codewhisperer", "amazonq">>

\* a loop head that allows one attempt more than config.max_retries.max(1)
max_attempts_more(cfg) == cfg.max_retries + 1

\* config.max_retries.max(1)
max_attempts(cfg) == IF cfg.max_retries > 1 THEN cfg.max_retries ELSE 1

\* retry_delay_ms.saturating_mul(attempt + 1), in the seconds of the clock
retry_sleep(cfg, attempt) == (cfg.retry_delay_ms * (attempt + 1)) \div 1000

\* the failure log of a handler: account_id None, status from the last error
failure_log(last_error) ==
    [success |-> FALSE, account_id |-> None, model |-> Some("m1"),
     input_tokens |-> 0, output_tokens |-> 0, credits |-> 0, timestamp |-> now,
     status |-> IF IsSome(last_error)
                THEN unwrap_or(parse_upstream_status(last_error[1]), 500)
                ELSE 500]

success_log(id) ==
    [success |-> TRUE, account_id |-> Some(id), model |-> Some("m1"),
     input_tokens |-> 2, output_tokens |-> 1, credits |-> IF vendor = "K" THEN 1 ELSE 0,
     timestamp |-> now, status |-> 200]

\* the handler records its failure log and answers with the error
EndWithFailureLog(rq) ==
    /\ req' = [rq EXCEPT !.pc = "done", !.client = "error", !.logs = @ + 1,
                         !.last_log = Some(failure_log(rq.last_error))]
    /\ stats' = record(stats, failure_log(rq.last_error))

\* the handler answers without recording a log
EndWithoutLog(rq, answer) ==
    /\ req' = [rq EXCEPT !.pc = "done", !.client = answer]
    /\ stats' = stats

\* Ok(..): mark_account_success is done by the caller; one success log
EndWithSuccessLog(rq) ==
    /\ req' = [rq EXCEPT !.pc = "done", !.client = "200", !.logs = @ + 1,
                         !.last_log = Some(success_log(rq.account[1]))]
    /\ stats' = record(stats, success_log(rq.account[1]))

\* the handler goes on to its next step
GoOn(rq) ==
    /\ req' = rq
    /\ stats' = stats

\* a chat request has passed verify_auth and the validation of its body
ReqBegin ==
    /\ req.pc = "idle"
    /\ running
    /\ \E stream \in BOOLEAN :
          req' = [IdleReq EXCEPT !.pc = "take", !.stream = stream]
    /\ UNCHANGED <<extVars, server, vendor, now, env_steps, store, current_id, config, pool, running,
                   last, quota_mark, run, run_cursor, stats>>

\* the head of an attempt: `for attempt in 0..config.max_retries.max(1)`,
\* take_next_account, and for Vendor-A ensure_project_id_for_account.
\* The streaming handlers of Vendor-K take one account and have no loop.
ReqTake ==
    /\ req.pc = "take"
    /\ IF req.attempt >= max_attempts(config) /\ ~(vendor = "K" /\ req.stream)
       THEN /\ EndWithFailureLog(req)
            /\ pool' = pool
       ELSE \E o \in take_next_account(vendor, SvcState, current_id, now),
               project_ok \in BOOLEAN :
              LET rq == [req EXCEPT !.takes = @ + 1,
                                    !.attempt_calls = 0,
                                    !.account = o.ret,
                                    !.endpoint = 1,
                                    !.refreshed_once = FALSE,
                                    !.retried_without_project = FALSE,
                                    !.tried = {},
                                    !.quota_hit = None,
                                    !.recall = IF @ = "pending" THEN "dropped" ELSE @]
              IN /\ pool' = o.pool
                 /\ IF ~IsSome(o.ret)
                    THEN IF vendor = "K" /\ req.stream
                         THEN EndWithoutLog([rq EXCEPT !.no_account = TRUE], "503")
                         ELSE EndWithFailureLog([rq EXCEPT !.no_account = TRUE,
                                                           !.last_error = None])
                    ELSE IF vendor = "A" /\ ~project_ok
                         THEN EndWithFailureLog([rq EXCEPT !.last_error = None,
                                                           !.project_failed = TRUE])
                         ELSE GoOn([rq EXCEPT !.pc = "call"])
    /\ UNCHANGED <<extVars, server, vendor, now, env_steps, store, current_id, config, running,
                   last, quota_mark, run, run_cursor>>

\* what an upstream call with the request's account on endpoint `ep` that
\* came back with `res` adds to the record of the request
Observe(rq, ep, res) ==
    [rq EXCEPT !.calls = @ + 1,
               !.attempt_calls = @ + 1,
               !.tried = @ \cup {ep},
               !.last_status = Some(res.status),
               !.after_quota = @ \/ (IsSome(rq.quota_hit) /\ rq.quota_hit = rq.account),
               !.after_fatal = @ \/ rq.fatal_seen,
               !.fatal_seen = @ \/ (res.status = 400 /\ ~res.invalid_project),
               !.auth_errors = @ + (IF res.status \in {401, 403} THEN 1 ELSE 0),
               !.recall = IF @ = "pending"
                          THEN (IF rq.refresh_at = rq.endpoint THEN "same" ELSE "other")
                          ELSE @]

\* refresh_account_token(account.id) came back Ok
Refreshed(rq) ==
    [rq EXCEPT !.refreshes = @ + 1, !.refresh_at = rq.endpoint, !.recall = "pending"]

\* `break` out of the inner loop, or the end of the endpoint list
NextAttempt(rq) == [rq EXCEPT !.attempt = @ + 1, !.pc = "take"]

\* Vendor-A, try_non_stream_openai and handle_openai_stream: one turn of the
\* inner `loop` around generate_content / stream_generate_content
ReqCallAntigravity ==
    /\ req.pc = "call"
    /\ vendor = "A"
    /\ \E res \in UpstreamResults(vendor), refresh_ok \in BOOLEAN, project_ok \in BOOLEAN :
        LET id == req.account[1]
            ep == ordered_endpoints(vendor, config.preferred_endpoint)[req.endpoint]
            seen == Observe(req, ep, res)
            failed == [seen EXCEPT !.last_error = Some(res)]
            status_code == parse_upstream_status(res)
            auth == status_code \in {Some(401), Some(403)} /\ ~req.refreshed_once
            \* the refresh was tried and failed
            unrefreshed == IF auth THEN [failed EXCEPT !.refreshes = @ + 1] ELSE failed
        IN IF res.status = 200
           THEN /\ pool' = record_success(pool, id)
                /\ now' = now
                /\ EndWithSuccessLog(seen)
           ELSE IF ~req.retried_without_project /\ res.invalid_project
           THEN /\ pool' = pool
                /\ now' = now
                /\ IF project_ok
                   THEN GoOn([failed EXCEPT !.retried_without_project = TRUE])
                   ELSE IF req.stream
                        THEN GoOn(NextAttempt(
                                [failed EXCEPT !.retried_without_project = TRUE,
                                               !.project_failed = TRUE,
                                               !.last_error = Some([status |-> NoStatus,
                                                                    invalid_project |-> FALSE])]))
                        ELSE EndWithFailureLog(
                                [failed EXCEPT !.project_failed = TRUE,
                                               !.last_error = Some([status |-> NoStatus,
                                                                    invalid_project |-> FALSE])])
           ELSE IF auth /\ refresh_ok
           THEN /\ pool' = pool
                /\ now' = now
                /\ GoOn([Refreshed(failed) EXCEPT !.refreshed_once = TRUE])
           ELSE IF status_code = Some(429)
           THEN /\ pool' = record_error(vendor, pool, id, TRUE, now)
                /\ now' = now
                /\ GoOn(NextAttempt([unrefreshed EXCEPT !.quota_hit = Some(id)]))
           ELSE IF unwrap_or(status_code, 500) >= 500
           THEN /\ pool' = record_error(vendor, pool, id, FALSE, now)
                /\ now' = now + retry_sleep(config, req.attempt)
                /\ GoOn(NextAttempt(unrefreshed))
           ELSE /\ pool' = pool
                /\ now' = now
                /\ IF req.stream
                   THEN EndWithoutLog(unrefreshed, "error")
                   ELSE EndWithFailureLog(unrefreshed)
    /\ UNCHANGED <<extVars, server, vendor, env_steps, store, current_id, config, running,
                   last, quota_mark, run, run_cursor>>

\* Vendor-K, try_non_stream_openai / try_non_stream_claude: one turn of
\* `for endpoint in ordered_endpoints(..)`; every `continue` goes to the next
\* endpoint with the same account, and the attempt ends after the last one
ReqCallKiro ==
    /\ req.pc = "call"
    /\ vendor = "K"
    /\ ~req.stream
    /\ \E res \in UpstreamResults(vendor), refresh_ok \in BOOLEAN :
        LET id == req.account[1]
            endpoints == ordered_endpoints(vendor, config.preferred_endpoint)
            seen == Observe(req, endpoints[req.endpoint], res)
            failed == [seen EXCEPT !.last_error = Some(res)]
            status_code == parse_upstream_status(res)
            auth == status_code \in {Some(401), Some(403)}
            NextEndpoint(rq) == IF rq.endpoint < Len(endpoints)
                                THEN [rq EXCEPT !.endpoint = @ + 1]
                                ELSE NextAttempt(rq)
            unrefreshed == IF auth THEN [failed EXCEPT !.refreshes = @ + 1] ELSE failed
        IN IF res.status = 200
           THEN /\ pool' = record_success(pool, id)
                /\ now' = now
                /\ EndWithSuccessLog(seen)
           ELSE IF auth /\ refresh_ok
           THEN /\ pool' = pool
                /\ now' = now
                /\ GoOn(NextEndpoint(Refreshed(failed)))
           ELSE IF status_code = Some(429)
           THEN /\ pool' = record_error(vendor, pool, id, TRUE, now)
                /\ now' = now
                /\ GoOn(NextEndpoint([unrefreshed EXCEPT !.quota_hit = Some(id)]))
           ELSE IF unwrap_or(status_code, 500) >= 500
           THEN /\ pool' = record_error(vendor, pool, id, FALSE, now)
                /\ now' = now + retry_sleep(config, req.attempt)
                /\ GoOn(NextEndpoint(unrefreshed))
           ELSE /\ pool' = pool
                /\ now' = now
                /\ GoOn(NextEndpoint(unrefreshed))
    /\ UNCHANGED <<extVars, server, vendor, env_steps, store, current_id, config, running,
                   last, quota_mark, run, run_cursor>>

\* Vendor-K, handle_openai_stream / handle_claude_stream: the one call on
\* ordered_endpoints(..)[0] and the match on its result
ReqCallKiroStream ==
    /\ req.pc = "call"
    /\ vendor = "K"
    /\ req.stream
    /\ \E res \in UpstreamResults(vendor) :
        LET id == req.account[1]
            endpoints == ordered_endpoints(vendor, config.preferred_endpoint)
            seen == Observe(req, endpoints[1], res)
            status == unwrap_or(parse_upstream_status(res), 500)
            failed == [seen EXCEPT !.last_error = Some(res),
                                   !.auth_unrefreshed = @ \/ res.status \in {401, 403},
                                   !.quota_hit = IF status = 429 THEN Some(id) ELSE @]
            log == [failure_log(Some(res)) EXCEPT !.account_id = Some(id)]
        IN IF res.status = 200
           THEN /\ pool' = record_success(pool, id)
                /\ EndWithSuccessLog(seen)
           ELSE /\ pool' = record_error(vendor, pool, id, status = 429, now)
                /\ req' = [failed EXCEPT !.pc = "done", !.client = "error",
                                         !.logs = @ + 1, !.last_log = Some(log)]
                /\ stats' = record(stats, log)
    /\ UNCHANGED <<extVars, server, vendor, now, env_steps, store, current_id, config, running,
                   last, quota_mark, run, run_cursor>>

NextRetry ==
    \/ ReqBegin
    \/ ReqTake
    \/ ReqCallAntigravity
    \/ ReqCallKiro
    \/ ReqCallKiroStream

\* the stored accounts a request can find: none, one or two
RetryStores ==
    {[id \in Accounts |-> IF id \in usable THEN "ok" ELSE "absent"] :
        usable \in {{}, {"a1"}, {"a1", "a2"}}}

\* the service is running with the pool synced at start()
RetryInit ==
    /\ vendor \in Vendors
    /\ now = 0
    /\ env_steps = 0
    /\ store \in RetryStores
    /\ current_id = None
    /\ \E m \in BOOLEAN, n \in 0..MaxRetries, p \in Option({"amazonq"}) :
          config = [DefaultConfig EXCEPT !.enable_multi_account = m,
                                         !.max_retries = n,
                                         !.preferred_endpoint = p]
    /\ pool = sync_accounts(EmptyPool, store, config)
    /\ running = TRUE
    /\ last = NoOp
    /\ quota_mark = None
    /\ run = <<>>
    /\ run_cursor = 0
    /\ req = IdleReq
    /\ stats = EmptyStats
    /\ recorded = <<>>
    /\ keys = NoKeys
    /\ sse = IdleSse
    /\ server = RunningServer
    /\ tok = NoTok
    /\ conc = NoConc

SpecRetry == RetryInit /\ [][NextRetry]_vars

\* C3: on an upstream 429 the account is recorded with a quota error (its
\* cooldown becomes now + 120 s for Vendor-A, now + 3600 s for Vendor-K) and
\* the loop breaks to the next attempt: no further upstream call is made with
\* that account, on any endpoint, before another account is taken.
C3_QuotaBreaks ==
    /\ (IsSome(req.quota_hit) /\ req.last_status = Some(429)) =>
          /\ req.quota_hit[1] \in PoolIds(pool)
          /\ pool.accounts[req.quota_hit[1]].cooldown_until
                = Some(now + cooldown_seconds(vendor, TRUE))
    /\ ~req.after_quota

\* C4: every chat request that passed auth and validation records exactly
\* one request log, a success log when the client got its answer and a
\* failure log otherwise, for streaming and non-streaming requests of both
\* vendors and whatever way the request ends.
C4_OneLogPerRequest ==
    /\ req.logs <= 1
    /\ stats.total_requests = req.logs
    /\ req.pc = "done" =>
          /\ req.logs = 1
          /\ req.last_log[1].success = (req.client = "200")

\* C5: a streaming request runs the same attempt loop as a non-streaming
\* one: after a 429 or a status >= 500 it goes on while attempts remain
\* below max(1, max_retries), and for Vendor-K an attempt tries both
\* endpoints; so a stream that ends on such an error has used all attempts.
C5_StreamRetries ==
    (/\ req.pc = "done"
     /\ req.stream
     /\ req.client # "200"
     /\ ~req.no_account
     /\ ~req.project_failed
     /\ req.last_status \in {Some(429), Some(500), Some(NoStatus)})
    => /\ req.takes = max_attempts(config)
       /\ req.tried = SeqToSet(ordered_endpoints(vendor, config.preferred_endpoint))

\* C6: on a 401 or 403 refresh_account_token is invoked and the same
\* endpoint is called again, once, with the refreshed account; when the
\* calls of a request are a 401/403 and then a 200, there was exactly one
\* refresh, the client got 200 and the log says success with the account.
C6_RefreshThenSameEndpoint ==
    /\ ~req.auth_unrefreshed
    /\ req.recall \notin {"other", "dropped"}
    /\ (req.pc = "done" /\ req.calls = 2 /\ req.auth_errors = 1
          /\ req.last_status = Some(200))
       => /\ req.refreshes = 1
          /\ req.client = "200"
          /\ req.last_log = Some(success_log(req.account[1]))

\* C7: on a 4xx other than 401, 403 and 429 the retry loop returns at once:
\* the request is over and no further upstream call is made, on any
\* endpoint or account.
C7_FatalReturnsAtOnce ==
    /\ req.fatal_seen => req.pc = "done"
    /\ ~req.after_fatal

----------------------------------------------------------------------------
(* The API-key registry of Vendor-K: kiro_proxy/auth.rs, stats.rs,         *)
(* service.rs.  Credits are counted in units of half a credit.              *)

MaxUsageHistory == 100

\* the secrets a client presents or an admin configures
Secrets == {"s1", "s2"}
KeyIds == {"k1", "k2"}

\* str::trim on the strings of the model: " " is the blank one, " s1 " a
\* padded secret
Trim(s) == IF s = " " THEN "" ELSE IF s = " s1 " THEN "s1" ELSE s

\* KiroProxyApiKeyUsage::default()
DefaultUsage == [total_requests |-> 0, total_credits |-> 0]

\* the index of the first element of s that passes Test, 0 if none does
FirstIndex(s, Test(_)) ==
    LET I == {i \in 1..Len(s) : Test(s[i])}
    IN  IF I = {} THEN 0 ELSE CHOOSE i \in I : \A j \in I : i <= j

AuthResult(valid, matched, reason, status) ==
    [valid |-> valid, matched |-> matched, reason |-> reason, status |-> status]

\* validate_api_key that admits a key up to and including its limit
validate_api_key_lax(cfg, provided) ==
    LET has_multi_keys == cfg.api_keys # <<>>
        has_single_key == IsSome(cfg.api_key) /\ Trim(cfg.api_key[1]) # ""
        at == FirstIndex(cfg.api_keys,
                         LAMBDA entry : entry.enabled /\ entry.key = provided[1])
        key == cfg.api_keys[at]
    IN  IF ~has_multi_keys /\ ~has_single_key
        THEN AuthResult(TRUE, None, None, 200)
        ELSE IF ~IsSome(provided)
        THEN AuthResult(FALSE, None, Some("Missing API key"), 401)
        ELSE IF has_multi_keys /\ at # 0
        THEN IF IsSome(key.credits_limit)
                  /\ key.usage.total_credits > key.credits_limit[1]
             THEN AuthResult(FALSE, Some(key), Some("Credits limit exceeded"), 429)
             ELSE AuthResult(TRUE, Some(key), None, 200)
        ELSE IF has_single_key /\ cfg.api_key = provided
        THEN AuthResult(TRUE, None, None, 200)
        ELSE AuthResult(FALSE, None, Some("Invalid API key"), 401)

\* auth.rs validate_api_key; provided is what extract_api_key found in the
\* headers (trimmed and not empty, or None)
validate_api_key(cfg, provided) ==
    LET has_multi_keys == cfg.api_keys # <<>>
        has_single_key == IsSome(cfg.api_key) /\ Trim(cfg.api_key[1]) # ""
        at == FirstIndex(cfg.api_keys,
                         LAMBDA entry : entry.enabled /\ entry.key = provided[1])
        key == cfg.api_keys[at]
    IN  IF ~has_multi_keys /\ ~has_single_key
        THEN AuthResult(TRUE, None, None, 200)
        ELSE IF ~IsSome(provided)
        THEN AuthResult(FALSE, None, Some("Missing API key"), 401)
        ELSE IF has_multi_keys /\ at # 0
        THEN IF IsSome(key.credits_limit)
                  /\ key.usage.total_credits >= key.credits_limit[1]
             THEN AuthResult(FALSE, Some(key), Some("Credits limit exceeded"), 429)
             ELSE AuthResult(TRUE, Some(key), None, 200)
        ELSE IF has_single_key /\ cfg.api_key = provided
        THEN AuthResult(TRUE, None, None, 200)
        ELSE AuthResult(FALSE, None, Some("Invalid API key"), 401)

\* ProxyUsageRecord
UsageRecord(t, credits) == [timestamp |-> t, credits |-> credits]

\* record_api_key_usage that pushes the record at the back of the history
record_api_key_usage_back(api_keys, api_key_id, credits, t) ==
    LET at == FirstIndex(api_keys, LAMBDA item : item.id = api_key_id)
        api_key == api_keys[at]
        pushed == Append(api_key.usage_history, UsageRecord(t, credits))
    IN  IF at = 0 THEN api_keys
        ELSE [api_keys EXCEPT ![at] =
                [api_key EXCEPT
                    !.usage = [total_requests |-> api_key.usage.total_requests + 1,
                               total_credits |-> api_key.usage.total_credits + credits],
                    !.usage_history =
                        IF Len(pushed) > MaxUsageHistory
                        THEN SubSeq(pushed, 1, MaxUsageHistory) ELSE pushed]]

\* stats.rs record_api_key_usage: the usage totals and the usage history
record_api_key_usage(api_keys, api_key_id, credits, t) ==
    LET at == FirstIndex(api_keys, LAMBDA item : item.id = api_key_id)
        api_key == api_keys[at]
        inserted == <<UsageRecord(t, credits)>> \o api_key.usage_history
    IN  IF at = 0 THEN api_keys
        ELSE [api_keys EXCEPT ![at] =
                [api_key EXCEPT
                    !.usage = [total_requests |-> api_key.usage.total_requests + 1,
                               total_credits |-> api_key.usage.total_credits + credits],
                    !.usage_history =
                        IF Len(inserted) > MaxUsageHistory
                        THEN SubSeq(inserted, 1, MaxUsageHistory) ELSE inserted]]

\* KiroProxyService::apply_api_key_usage
apply_api_key_usage(cfg, api_key_id, credits, t) ==
    IF IsSome(api_key_id)
    THEN [cfg EXCEPT !.api_keys = record_api_key_usage(@, api_key_id[1], credits, t)]
    ELSE cfg

\* how many requests and admin calls one behaviour of the registry makes
MaxAuthSteps == 3

\* the first request of the model arrives at this time
AuthEpoch == 1000

\* a usage history of n records written one after another, the newest first
PersistedHistory(n) == [i \in 1..n |-> UsageRecord(AuthEpoch - i, 1)]

PersistedKey(id, key, enabled, limit, n) ==
    [id |-> id, key |-> key, enabled |-> enabled, credits_limit |-> limit,
     usage |-> [total_requests |-> n, total_credits |-> n],
     usage_history |-> PersistedHistory(n)]

\* the api_keys of the configuration file when the service starts
PersistedApiKeys ==
    {<<>>,
     <<PersistedKey("k1", "s1", TRUE, Some(2), 0)>>,
     <<PersistedKey("k1", "s1", FALSE, None, 0),
       PersistedKey("k2", "s2", TRUE, None, MaxUsageHistory - 1)>>}

\* the api_key of the configuration file: none, blank, a secret
PersistedApiKey == {None, Some(" "), Some("s1")}

AuthInit ==
    /\ vendor = "K"
    /\ now = AuthEpoch
    /\ env_steps = 0
    /\ store = [id \in Accounts |-> "ok"]
    /\ current_id = None
    /\ config = DefaultConfig
    /\ pool = EmptyPool
    /\ running = TRUE
    /\ last = NoOp
    /\ quota_mark = None
    /\ run = <<>>
    /\ run_cursor = 0
    /\ req = IdleReq
    /\ stats = EmptyStats
    /\ recorded = <<>>
    /\ keys \in [api_key : PersistedApiKey, api_keys : PersistedApiKeys]
    /\ sse = IdleSse
    /\ server = RunningServer
    /\ tok = NoTok
    /\ conc = NoConc

\* server.rs verify_auth at the head of a chat handler
AuthVerify ==
    /\ req.pc = "idle"
    /\ env_steps < MaxAuthSteps
    /\ \E provided \in Option(Secrets) :
          LET auth == validate_api_key(keys, provided)
          IN  /\ last' = [op |-> "verify_auth", provided |-> provided, ret |-> auth]
              /\ req' = IF auth.valid
                        THEN [req EXCEPT !.pc = "upstream",
                                         !.api_key_id =
                                            IF IsSome(auth.matched)
                                            THEN Some(auth.matched[1].id) ELSE None]
                        ELSE req
    /\ env_steps' = env_steps + 1
    /\ UNCHANGED <<notAuth, vendor, now, store, current_id, config, pool, running,
                   quota_mark, run, run_cursor, stats, keys>>

\* the end of an admitted request: on success the handler applies the usage
AuthFinish ==
    /\ req.pc = "upstream"
    /\ \E ok \in BOOLEAN, credits \in {1, 3} :
          IF ok
          THEN /\ keys' = apply_api_key_usage(keys, req.api_key_id, credits, now)
               /\ last' = [op |-> "apply_api_key_usage", api_key_id |-> req.api_key_id,
                           credits |-> credits, at |-> now, before |-> keys]
          ELSE /\ keys' = keys
               /\ last' = NoOp
    /\ req' = IdleReq
    /\ now' = now + 1
    /\ UNCHANGED <<notAuth, vendor, env_steps, store, current_id, config, pool, running,
                   quota_mark, run, run_cursor, stats>>

\* KiroProxyService::add_api_key: the id is a fresh uuid
add_api_key(cfg, id, key, enabled, limit) ==
    IF Trim(key) = "" \/ \E i \in 1..Len(cfg.api_keys) : cfg.api_keys[i].key = Trim(key)
    THEN cfg
    ELSE [cfg EXCEPT !.api_keys =
            Append(@, [id |-> id, key |-> Trim(key), enabled |-> enabled,
                       credits_limit |-> limit, usage |-> DefaultUsage,
                       usage_history |-> <<>>])]

\* KiroProxyService::update_api_key
update_api_key(cfg, id, enabled, limit) ==
    LET at == FirstIndex(cfg.api_keys, LAMBDA item : item.id = id)
    IN  IF at = 0 THEN cfg
        ELSE [cfg EXCEPT !.api_keys[at] =
                [@ EXCEPT !.enabled = IF IsSome(enabled) THEN enabled[1] ELSE @,
                          !.credits_limit = IF IsSome(limit) THEN limit ELSE @]]

\* KiroProxyService::delete_api_key
delete_api_key(cfg, id) ==
    [cfg EXCEPT !.api_keys = SelectSeq(@, LAMBDA item : item.id # id)]

\* KiroProxyService::reset_api_key_usage
reset_api_key_usage(cfg, id) ==
    LET at == FirstIndex(cfg.api_keys, LAMBDA item : item.id = id)
    IN  IF at = 0 THEN cfg
        ELSE [cfg EXCEPT !.api_keys[at] =
                [@ EXCEPT !.usage = DefaultUsage, !.usage_history = <<>>]]

KeysEdit(new, op) ==
    /\ env_steps < MaxAuthSteps
    /\ keys' = new
    /\ last' = [op |-> op, before |-> keys]
    /\ env_steps' = env_steps + 1
    /\ UNCHANGED <<notAuth, vendor, now, store, current_id, config, pool, running,
                   quota_mark, run, run_cursor, req, stats>>

KeyAdd ==
    \E id \in KeyIds, key \in Secrets \cup {" "} :
        /\ \A i \in 1..Len(keys.api_keys) : keys.api_keys[i].id # id
        /\ KeysEdit(add_api_key(keys, id, key, TRUE, Some(2)), "add_api_key")

KeyUpdate ==
    \E id \in KeyIds, enabled \in Option(BOOLEAN), limit \in {None, Some(4)} :
        KeysEdit(update_api_key(keys, id, enabled, limit), "update_api_key")

KeyDelete ==
    \E id \in KeyIds : KeysEdit(delete_api_key(keys, id), "delete_api_key")

KeyResetUsage ==
    \E id \in KeyIds : KeysEdit(reset_api_key_usage(keys, id), "reset_api_key_usage")

NextAuth ==
    \/ AuthVerify
    \/ AuthFinish
    \/ KeyAdd
    \/ KeyUpdate
    \/ KeyDelete
    \/ KeyResetUsage

SpecAuth == AuthInit /\ [][NextAuth]_vars

\* C12: a request presenting an enabled key with credits_limit L is admitted
\* while the key's usage.total_credits is below L; its usage is recorded on
\* success even past L; from total_credits >= L on, the request is rejected
\* with 429 'Credits limit exceeded' and the result names the matched key,
\* until the usage is reset or the limit raised.
C12_CreditsLimit ==
    /\ (last.op = "verify_auth" /\ IsSome(last.provided)) =>
          \A i \in 1..Len(keys.api_keys) :
             LET k == keys.api_keys[i]
             IN  (k.enabled /\ k.key = last.provided[1] /\ IsSome(k.credits_limit)) =>
                    IF k.usage.total_credits < k.credits_limit[1]
                    THEN last.ret.valid /\ last.ret.status = 200
                    ELSE /\ ~last.ret.valid
                         /\ last.ret.status = 429
                         /\ last.ret.reason = <<"Credits limit exceeded">>
                         /\ Len(last.ret.matched) = 1
                         /\ last.ret.matched[1].id = k.id
    /\ (last.op = "apply_api_key_usage" /\ IsSome(last.api_key_id)) =>
          \A i \in 1..Len(last.before.api_keys) :
             last.before.api_keys[i].id = last.api_key_id[1] =>
                keys.api_keys[i].usage.total_credits =
                   last.before.api_keys[i].usage.total_credits + last.credits

\* a request was rejected with 429 after an admitted one had pushed the
\* key's credits past its limit
C12_Witness ==
    /\ last.op = "verify_auth"
    /\ last.ret.status = 429
    /\ Len(last.ret.matched) = 1
    /\ last.ret.matched[1].usage.total_requests = 1
    /\ last.ret.matched[1].usage.total_credits > last.ret.matched[1].credits_limit[1]

\* C13: the single api_key secret is accepted only when no multi-tenant
\* api_keys are configured; with api_keys non-empty a request is authenticated
\* only if the presented key equals the secret of an enabled entry.
C13_SingleOnlyWithoutMulti ==
    (last.op = "verify_auth" /\ keys.api_keys # <<>> /\ last.ret.valid) =>
        /\ IsSome(last.provided)
        /\ \E i \in 1..Len(keys.api_keys) :
              keys.api_keys[i].enabled /\ keys.api_keys[i].key = last.provided[1]

\* C14: each key's usage_history has at most 100 entries, the most recent
\* first; a record_api_key_usage call puts its record at index 0 and drops
\* what lies beyond 100; a call naming an unknown key id changes nothing.
C14_UsageHistory ==
    /\ \A i \in 1..Len(keys.api_keys) :
          LET h == keys.api_keys[i].usage_history
          IN  /\ Len(h) <= 100
              /\ \A j, k \in 1..Len(h) : j < k => h[j].timestamp >= h[k].timestamp
    /\ (last.op = "apply_api_key_usage" /\ IsSome(last.api_key_id)) =>
          LET before == last.before.api_keys
          IN  IF \A i \in 1..Len(before) : before[i].id # last.api_key_id[1]
              THEN keys = last.before
              ELSE \A i \in 1..Len(before) :
                      LET h == keys.api_keys[i].usage_history
                          old == before[i].usage_history
                      IN  IF before[i].id = last.api_key_id[1]
                          THEN /\ h[1] = [timestamp |-> last.at, credits |-> last.credits]
                               /\ Len(h) = IF Len(old) + 1 > 100 THEN 100 ELSE Len(old) + 1
                               /\ \A j \in 2..Len(h) : h[j] = old[j - 1]
                          ELSE h = old

\* a record reached a key whose history was full: the oldest entry left
C14_Witness ==
    /\ last.op = "apply_api_key_usage"
    /\ \E i \in 1..Len(keys.api_keys) :
          /\ last.api_key_id = <<keys.api_keys[i].id>>
          /\ Len(last.before.api_keys[i].usage_history) = 100
          /\ Len(keys.api_keys[i].usage_history) = 100
          /\ keys.api_keys[i].usage_history[1].timestamp = last.at

----------------------------------------------------------------------------
(* The SSE output of the streaming handlers: kiro_proxy/server.rs           *)
(* handle_openai_stream and handle_claude_stream, antigravity_proxy/        *)
(* server.rs handle_openai_stream.  An event is [type, index, detail].      *)

\* how many upstream messages one streaming response receives
MaxMessages == 4

\* KiroStreamMessage
StreamMessages == {"Text", "Thinking", "ToolUse"}

\* config.thinking_output_format
ThinkingFormats == {"thinking", "think", "reasoning_content"}

Event(type, index, detail) == [type |-> type, index |-> index, detail |-> detail]

\* tx.send(..) on the unbounded channel: the events reach the client, or the
\* send fails because the receiver is gone; every caller drops the result
send(s, events) ==
    IF s.connected THEN [s EXCEPT !.out = @ \o events]
    ELSE [s EXCEPT !.send_failed = TRUE]

\* the callback of handle_claude_stream that leaves the text block open when
\* a tool use arrives
claude_on_message_open(s, msg) ==
    LET i == s.content_block_index
        open_text == IF s.has_text_block THEN <<>>
                     ELSE <<Event("content_block_start", i, "text")>>
        wrapped == s.format \in {"thinking", "think"}
    IN  IF msg = "Text" \/ (msg = "Thinking" /\ wrapped)
        THEN [send(s, open_text \o <<Event("content_block_delta", i, "text_delta")>>)
                 EXCEPT !.has_text_block = TRUE]
        ELSE IF msg = "Thinking"
        THEN s
        ELSE [send(s, <<Event("content_block_start", i, "tool_use"),
                        Event("content_block_delta", i, "input_json_delta"),
                        Event("content_block_stop", i, "")>>)
                 EXCEPT !.has_tool_calls = TRUE,
                        !.content_block_index = i + 1]

\* the callback of handle_claude_stream (server.rs 812-927)
claude_on_message(s, msg) ==
    LET i == s.content_block_index
        open_text == IF s.has_text_block THEN <<>>
                     ELSE <<Event("content_block_start", i, "text")>>
        wrapped == s.format \in {"thinking", "think"}
        close_text == IF s.has_text_block
                      THEN <<Event("content_block_stop", i, "")>> ELSE <<>>
        j == IF s.has_text_block THEN i + 1 ELSE i
    IN  IF msg = "Text" \/ (msg = "Thinking" /\ wrapped)
        THEN [send(s, open_text \o <<Event("content_block_delta", i, "text_delta")>>)
                 EXCEPT !.has_text_block = TRUE]
        ELSE IF msg = "Thinking"
        THEN s
        ELSE [send(s, close_text \o
                      <<Event("content_block_start", j, "tool_use"),
                        Event("content_block_delta", j, "input_json_delta"),
                        Event("content_block_stop", j, "")>>)
                 EXCEPT !.has_tool_calls = TRUE,
                        !.has_text_block = FALSE,
                        !.content_block_index = j + 1]

\* the Ok branch of handle_claude_stream (server.rs 931-979)
claude_finish(s) ==
    send(s, (IF s.has_text_block
             THEN <<Event("content_block_stop", s.content_block_index, "")>> ELSE <<>>)
            \o <<Event("message_delta", 0,
                       IF s.has_tool_calls THEN "tool_use" ELSE "end_turn"),
                 Event("message_stop", 0, "")>>)

\* the callback of Vendor-K's handle_openai_stream (server.rs 402-450)
openai_on_message(s, msg) ==
    IF msg = "Text" \/ (msg = "Thinking" /\ s.format \in {"thinking", "think"})
    THEN send(s, <<Event("chunk", 0, "content")>>)
    ELSE IF msg = "Thinking"
    THEN send(s, <<Event("chunk", 0, "reasoning_content")>>)
    ELSE [send(s, <<Event("chunk", s.tool_calls, "tool_calls")>>)
             EXCEPT !.tool_calls = @ + 1]

\* the Ok branch of the OpenAI stream handlers: the finish chunk, then [DONE]
openai_finish(s) ==
    send(s, <<Event("chunk", 0, IF s.tool_calls > 0 THEN "finish:tool_calls"
                                ELSE "finish:stop"),
              Event("[DONE]", 0, "")>>)

\* what the handler sends when the upstream call failed for good: Vendor-A
\* sends the error and [DONE]; Vendor-K sends the error event alone
send_error(v, s) ==
    IF v = "A" THEN send(s, <<Event("error", 0, ""), Event("[DONE]", 0, "")>>)
    ELSE send(s, <<Event("error", 0, "")>>)

\* the errors an upstream stream call ends with
StreamErrors == {r \in UpstreamResults("K") : r.status \in {400, 429, 500}}

StreamInit ==
    /\ vendor \in Vendors
    /\ now = 0
    /\ env_steps = 0
    /\ store \in {[id \in Accounts |-> "ok"], [id \in Accounts |-> "disabled"]}
    /\ current_id = None
    /\ config \in {[DefaultConfig EXCEPT !.max_retries = r] : r \in {0, 2}}
    /\ pool = sync_accounts(EmptyPool, store, config)
    /\ running = TRUE
    /\ last = NoOp
    /\ quota_mark = None
    /\ run = <<>>
    /\ run_cursor = 0
    /\ req = IdleReq
    /\ stats = EmptyStats
    /\ recorded = <<>>
    /\ keys = NoKeys
    /\ server = RunningServer
    /\ tok = NoTok
    /\ conc = NoConc
    /\ sse = IdleSse

\* the handler starts its response: Vendor-K takes its one account first and
\* answers 503 without a stream when there is none; the spawned task sends
\* the role chunk or message_start
SseBegin ==
    /\ sse.pc = "idle"
    /\ \E dialect \in (IF vendor = "K" THEN {"openai", "anthropic"} ELSE {"openai"}),
          format \in ThinkingFormats :
          LET first == IF dialect = "openai" THEN Event("chunk", 0, "role")
                       ELSE Event("message_start", 0, "")
              begun == [IdleSse EXCEPT !.dialect = dialect, !.format = format,
                                       !.out = <<first>>]
          IN  IF vendor = "A"
              THEN /\ sse' = [begun EXCEPT !.pc = "take"]
                   /\ pool' = pool
              ELSE \E o \in take_next_account(vendor, SvcState, current_id, now) :
                      /\ pool' = o.pool
                      /\ sse' = IF IsSome(o.ret)
                                THEN [begun EXCEPT !.pc = "call", !.account = o.ret]
                                ELSE [IdleSse EXCEPT !.pc = "done", !.result = "503"]
    /\ UNCHANGED <<notStream, vendor, now, env_steps, store, current_id, config, running,
                   last, quota_mark, run, run_cursor, req, stats>>

\* Vendor-A: the head of the attempt loop; without an account, or with the
\* attempts used up, the handler sends the error and [DONE] and logs
SseTake ==
    /\ sse.pc = "take"
    /\ IF sse.attempt >= max_attempts(config)
       THEN /\ sse' = [send_error(vendor, sse) EXCEPT !.pc = "done", !.result = "error"]
            /\ stats' = record(stats, failure_log(None))
            /\ pool' = pool
       ELSE \E o \in take_next_account(vendor, SvcState, current_id, now) :
               /\ pool' = o.pool
               /\ IF IsSome(o.ret)
                  THEN /\ sse' = [sse EXCEPT !.pc = "call", !.account = o.ret]
                       /\ stats' = stats
                  ELSE /\ sse' = [send_error(vendor, sse) EXCEPT !.pc = "done",
                                                                 !.result = "error"]
                       /\ stats' = record(stats, failure_log(None))
    /\ UNCHANGED <<notStream, vendor, now, env_steps, store, current_id, config, running,
                   last, quota_mark, run, run_cursor, req>>

\* the upstream call hands one message to the callback
SseMessage ==
    /\ sse.pc = "call"
    /\ Len(sse.msgs) < MaxMessages
    /\ \E msg \in (IF vendor = "K" THEN StreamMessages ELSE {"Text"}) :
          LET heard == [sse EXCEPT !.msgs = Append(@, msg)]
          IN  sse' = IF vendor = "A" THEN send(heard, <<Event("chunk", 0, "content")>>)
                     ELSE IF sse.dialect = "openai" THEN openai_on_message(heard, msg)
                     ELSE claude_on_message(heard, msg)
    /\ UNCHANGED <<notStream, vendor, now, env_steps, store, current_id, config, pool,
                   running, last, quota_mark, run, run_cursor, req, stats>>

\* the upstream call returns Ok(usage)
SseUpstreamOk ==
    /\ sse.pc = "call"
    /\ sse' = [(IF sse.dialect = "openai" THEN openai_finish(sse) ELSE claude_finish(sse))
                  EXCEPT !.pc = "done", !.result = "ok"]
    /\ pool' = record_success(pool, sse.account[1])
    /\ stats' = record(stats, success_log(sse.account[1]))
    /\ UNCHANGED <<notStream, vendor, now, env_steps, store, current_id, config, running,
                   last, quota_mark, run, run_cursor, req>>

\* the upstream call returns Err: Vendor-K ends the response; Vendor-A goes
\* to its next attempt after a 429 or a 5xx and ends the response otherwise
\* (its 401 refresh and project retries call again and send nothing)
SseUpstreamErr ==
    /\ sse.pc = "call"
    /\ \E err \in StreamErrors :
          LET id == sse.account[1]
              status == unwrap_or(parse_upstream_status(err), 500)
          IN  IF vendor = "K"
              THEN /\ pool' = record_error(vendor, pool, id, status = 429, now)
                   /\ sse' = [send_error(vendor, sse) EXCEPT !.pc = "done",
                                                             !.result = "error"]
                   /\ stats' = record(stats, [failure_log(Some(err))
                                                 EXCEPT !.account_id = Some(id)])
              ELSE IF status = 429 \/ status >= 500
              THEN /\ pool' = record_error(vendor, pool, id, status = 429, now)
                   /\ sse' = [sse EXCEPT !.pc = "take", !.attempt = @ + 1]
                   /\ stats' = stats
              ELSE /\ pool' = pool
                   /\ sse' = [send_error(vendor, sse) EXCEPT !.pc = "done",
                                                             !.result = "error"]
                   /\ stats' = stats
    /\ UNCHANGED <<notStream, vendor, now, env_steps, store, current_id, config, running,
                   last, quota_mark, run, run_cursor, req>>

NextStream ==
    \/ SseBegin
    \/ SseTake
    \/ SseMessage
    \/ SseUpstreamOk
    \/ SseUpstreamErr

SpecStream == StreamInit /\ [][NextStream]_vars

\* the terminator of a dialect
IsTerminator(dialect, e) ==
    IF dialect = "openai" THEN e.type = "[DONE]" ELSE e.type = "message_stop"

\* C18: every SSE response ends with the terminator of its dialect, also when
\* the upstream call fails: after the error event an OpenAI stream sends
\* [DONE] and an Anthropic stream sends message_stop, and nothing follows the
\* terminator.
C18_EndsWithTerminator ==
    (sse.pc = "done" /\ sse.out # <<>>) =>
        /\ IsTerminator(sse.dialect, sse.out[Len(sse.out)])
        /\ \A i \in 1..(Len(sse.out) - 1) : ~IsTerminator(sse.dialect, sse.out[i])

\* the positions of the events of a type in the output
Positions(type) == {i \in 1..Len(sse.out) : sse.out[i].type = type}

\* C19: for any upstream sequence of Text, Thinking and ToolUse messages that
\* ends successfully the Anthropic output is well-formed: message_start
\* first; blocks indexed 0,1,2,... in order, each opened by one
\* content_block_start and closed by one content_block_stop of its index
\* before the next opens; every content_block_delta inside the open block of
\* its index; then one message_delta (tool_use if a tool use was emitted,
\* else end_turn) and one message_stop, last.  A response of text messages
\* alone is one text block start, its deltas, one stop, message_delta
\* (end_turn), message_stop.
C19_AnthropicWellFormed ==
    (sse.pc = "done" /\ sse.dialect = "anthropic" /\ sse.result = "ok") =>
        LET out == sse.out
            n == Len(out)
            starts == Positions("content_block_start")
            stops == Positions("content_block_stop")
            deltas == Positions("content_block_delta")
        IN  /\ Positions("message_start") = {1}
            /\ Positions("message_stop") = {n}
            /\ Positions("message_delta") = {n - 1}
            /\ Positions("error") = {}
            /\ out[n - 1].detail =
                  IF \E i \in starts : out[i].detail = "tool_use"
                  THEN "tool_use" ELSE "end_turn"
            /\ \A i \in starts :
                  /\ out[i].index = Cardinality({k \in starts : k < i})
                  /\ \E j \in stops :
                        /\ j > i
                        /\ out[j].index = out[i].index
                        /\ \A k \in starts \cup stops : ~(i < k /\ k < j)
            /\ Cardinality(stops) = Cardinality(starts)
            /\ \A d \in deltas :
                  \E i \in starts, j \in stops :
                     /\ i < d /\ d < j
                     /\ out[i].index = out[d].index
                     /\ out[j].index = out[d].index
                     /\ \A k \in starts \cup stops : ~(i < k /\ k < j)
            /\ (sse.msgs # <<>> /\ \A m \in 1..Len(sse.msgs) : sse.msgs[m] = "Text") =>
                  /\ starts = {2}
                  /\ out[2].detail = "text"
                  /\ deltas = 3..(n - 3)
                  /\ deltas # {}
                  /\ stops = {n - 2}

\* text came, then a tool use, then text again: three blocks, closed in turn
C19_Witness ==
    /\ sse.pc = "done"
    /\ sse.dialect = "anthropic"
    /\ sse.result = "ok"
    /\ sse.msgs = <<"Text", "ToolUse", "Text">>
    /\ Cardinality(Positions("content_block_start")) = 3
    /\ sse.out[Len(sse.out) - 1].detail = "tool_use"

----------------------------------------------------------------------------
(* The HTTP front of the two servers: server.rs routes, verify_auth and     *)
(* handle_health; antigravity_proxy/auth.rs.  A header value is one string. *)

\* the Authorization header values a client sends
AuthorizationValues == {"Bearer s1", "Bearer  s1 ", "Bearer s2", "Bearer  ", "s1"}

\* raw.strip_prefix("Bearer ")
strip_prefix_bearer(raw) ==
    CASE raw = "Bearer s1" -> Some("s1")
      [] raw = "Bearer  s1 " -> Some(" s1 ")
      [] raw = "Bearer s2" -> Some("s2")
      [] raw = "Bearer  " -> Some(" ")
      [] OTHER -> None

\* the headers of a request: authorization and x-api-key
Headers == [authorization : Option(AuthorizationValues), x_api_key : Option({"s1"})]

NoHeaders == [authorization |-> None, x_api_key |-> None]

\* extract_api_key: the bearer token, trimmed, when it is not empty;
\* Vendor-K then looks at x-api-key
extract_api_key(v, headers) ==
    LET token == IF IsSome(headers.authorization)
                 THEN strip_prefix_bearer(headers.authorization[1]) ELSE None
    IN  IF IsSome(token) /\ Trim(token[1]) # "" THEN Some(Trim(token[1]))
        ELSE IF v = "K" /\ IsSome(headers.x_api_key) /\ Trim(headers.x_api_key[1]) # ""
        THEN Some(Trim(headers.x_api_key[1]))
        ELSE None

\* validate_api_key of Vendor-A that lets every request pass when no key is
\* configured
antigravity_validate_api_key_open(cfg, headers) ==
    LET expected == IF IsSome(cfg.api_key) THEN Trim(cfg.api_key[1]) ELSE ""
        provided == extract_api_key("A", headers)
    IN  IF ~cfg.auth_enabled \/ expected = ""
        THEN AuthResult(TRUE, None, None, 200)
        ELSE IF ~IsSome(provided)
        THEN AuthResult(FALSE, None, Some("Missing API key"), 401)
        ELSE IF provided[1] # expected
        THEN AuthResult(FALSE, None, Some("Invalid API key"), 401)
        ELSE AuthResult(TRUE, None, None, 200)

\* antigravity_proxy/auth.rs validate_api_key
antigravity_validate_api_key(cfg, headers) ==
    LET expected == IF IsSome(cfg.api_key) THEN Trim(cfg.api_key[1]) ELSE ""
        provided == extract_api_key("A", headers)
    IN  IF ~cfg.auth_enabled
        THEN AuthResult(TRUE, None, None, 200)
        ELSE IF expected = ""
        THEN AuthResult(FALSE, None,
                        Some("Proxy auth enabled but API key is not configured"), 401)
        ELSE IF ~IsSome(provided)
        THEN AuthResult(FALSE, None, Some("Missing API key"), 401)
        ELSE IF provided[1] # expected
        THEN AuthResult(FALSE, None, Some("Invalid API key"), 401)
        ELSE AuthResult(TRUE, None, None, 200)

\* KiroProxyService::should_authenticate_path
should_authenticate_path(path) == ~(path = "/" \/ path = "/health")

\* server.rs verify_auth: the status the handler goes on with (200) or
\* answers with
verify_auth(v, cfg, headers, path) ==
    IF v = "K"
    THEN IF ~should_authenticate_path(path) THEN 200
         ELSE validate_api_key(cfg, extract_api_key("K", headers)).status
    ELSE antigravity_validate_api_key(cfg, headers).status

\* handle_health behind the auth check of the other handlers
handle_health_behind_auth(v, cfg, headers) ==
    IF v = "K"
    THEN validate_api_key(cfg, extract_api_key("K", headers)).status
    ELSE antigravity_validate_api_key(cfg, headers).status

\* handle_health: the status of the answer
handle_health(v, cfg, headers) == 200

\* handle_models up to its auth check
handle_models(v, cfg, headers) == verify_auth(v, cfg, headers, "/v1/models")

\* the auth part of the configuration file of each vendor
AuthConfigs(v) ==
    IF v = "K"
    THEN [api_key : PersistedApiKey,
          api_keys : PersistedApiKeys \cup {<<PersistedKey("k1", "s1", TRUE, Some(2), 2)>>}]
    ELSE [auth_enabled : BOOLEAN,
          api_key : {None, Some(""), Some(" "), Some("s1"), Some(" s1 ")}]

\* a running service of either vendor with some auth configuration
HttpInit ==
    /\ vendor \in Vendors
    /\ now = 0
    /\ env_steps = 0
    /\ store = [id \in Accounts |-> "ok"]
    /\ current_id = None
    /\ config = DefaultConfig
    /\ pool = EmptyPool
    /\ running = TRUE
    /\ last = NoOp
    /\ quota_mark = None
    /\ run = <<>>
    /\ run_cursor = 0
    /\ req = IdleReq
    /\ stats = EmptyStats
    /\ recorded = <<>>
    /\ keys \in AuthConfigs(vendor)
    /\ sse = IdleSse
    /\ server = RunningServer
    /\ tok = NoTok
    /\ conc = NoConc

\* a request has been answered with this status
Answered(route, headers, status) ==
    /\ last' = [op |-> route, headers |-> headers, status |-> status]
    /\ UNCHANGED <<extVars, server, vendor, now, env_steps, store, current_id, config,
                   pool, running, quota_mark, run, run_cursor, req, stats>>

\* GET / and GET /health
HttpHealth ==
    \E headers \in Headers :
        Answered("handle_health", headers, handle_health(vendor, keys, headers))

\* GET /v1/models and GET /models
HttpModels ==
    \E headers \in Headers :
        Answered("handle_models", headers, handle_models(vendor, keys, headers))

NextHttp ==
    \/ HttpHealth
    \/ HttpModels

SpecHttp == HttpInit /\ [][NextHttp]_vars

\* the configuration rejects a request without credentials on the other routes
RejectsAnonymous ==
    IF vendor = "K"
    THEN \/ IsSome(keys.api_key) /\ keys.api_key # Some(" ")
         \/ keys.api_keys # <<>>
    ELSE keys.auth_enabled

\* C21: GET /health is answered with 200 without any credential under every
\* auth configuration of either vendor.
C21_HealthUnauthenticated ==
    last.op = "handle_health" => last.status = 200

\* a health request without credentials under a configuration that rejects
\* such a request elsewhere
C21_Witness ==
    /\ last.op = "handle_health"
    /\ last.headers = NoHeaders
    /\ RejectsAnonymous
    /\ last.status = 200

\* the key a Vendor-A request presents: the token after "Bearer ", without
\* the white space around it
PresentedKey ==
    IF IsSome(last.headers.authorization)
    THEN LET token == strip_prefix_bearer(last.headers.authorization[1])
         IN  IF IsSome(token) THEN Some(Trim(token[1])) ELSE None
    ELSE None

\* C23 as stated: with auth_enabled the request is accepted iff a non-empty
\* api_key is configured and the presented key equals it.
C23_Original ==
    (vendor = "A" /\ last.op = "handle_models") =>
        /\ last.status \in {200, 401}
        /\ last.status = 200 <=>
              \/ ~keys.auth_enabled
              \/ /\ IsSome(keys.api_key)
                 /\ keys.api_key # Some("")
                 /\ PresentedKey = keys.api_key

\* C23: Vendor-A validate_api_key accepts every request when auth_enabled is
\* false; when it is true it accepts a request iff a non-empty api_key is
\* configured and the presented key equals it, the configured key taken
\* without the white space around it; otherwise it rejects with 401.
C23_AntigravityAuth ==
    (vendor = "A" /\ last.op = "handle_models") =>
        /\ last.status \in {200, 401}
        /\ last.status = 200 <=>
              \/ ~keys.auth_enabled
              \/ /\ IsSome(keys.api_key)
                 /\ Trim(keys.api_key[1]) # ""
                 /\ PresentedKey = Some(Trim(keys.api_key[1]))

\* auth is enabled, no key is configured, and the request is rejected
C23_Witness ==
    /\ vendor = "A"
    /\ last.op = "handle_models"
    /\ keys.auth_enabled
    /\ keys.api_key = None
    /\ last.status = 401

----------------------------------------------------------------------------
(* parse_upstream_status on the text of an upstream error: server.rs of     *)
(* both vendors.  A text is a sequence of characters; "UPSTREAM_STATUS"     *)
(* stands for these fifteen characters in a row.                            *)

Digits == {"0", "1", "2", "3", "4", "5", "6", "7", "8", "9"}

\* char::to_digit(10) of a digit
to_digit(c) ==
    CASE c = "0" -> 0 [] c = "1" -> 1 [] c = "2" -> 2 [] c = "3" -> 3 [] c = "4" -> 4
      [] c = "5" -> 5 [] c = "6" -> 6 [] c = "7" -> 7 [] c = "8" -> 8 [] c = "9" -> 9

\* u16::MAX
U16Max == 65535

\* error.strip_prefix("UPSTREAM_STATUS:")
strip_prefix_status(error) ==
    IF Len(error) >= 2 /\ error[1] = "UPSTREAM_STATUS" /\ error[2] = ":"
    THEN Some(SubSeq(error, 3, Len(error)))
    ELSE None

\* rest.split(':').next(): the text before the first ':'
RECURSIVE split_next(_)
split_next(rest) ==
    IF rest = <<>> \/ Head(rest) = ":" THEN <<>>
    ELSE <<Head(rest)>> \o split_next(Tail(rest))

\* the checked accumulation of u16::from_str: None on a character that is
\* not a digit and on overflow
RECURSIVE parse_digits(_, _)
parse_digits(text, acc) ==
    IF text = <<>> THEN Some(acc)
    ELSE IF Head(text) \notin Digits THEN None
    ELSE IF acc * 10 + to_digit(Head(text)) > U16Max THEN None
    ELSE parse_digits(Tail(text), acc * 10 + to_digit(Head(text)))

\* status_text.parse::<u16>().ok(): an optional '+', then at least one digit
parse_u16(text) ==
    LET digits == IF text # <<>> /\ Head(text) = "+" THEN Tail(text) ELSE text
    IN  IF digits = <<>> THEN None ELSE parse_digits(digits, 0)

\* parse_upstream_status that parses all that follows the prefix
parse_upstream_status_text_whole(error) ==
    LET rest == strip_prefix_status(error)
    IN  IF ~IsSome(rest) THEN None ELSE parse_u16(rest[1])

\* parse_upstream_status on the text of the error
parse_upstream_status_text(error) ==
    LET rest == strip_prefix_status(error)
    IN  IF ~IsSome(rest) THEN None ELSE parse_u16(split_next(rest[1]))

\* the error texts of the model: what comes first, the status text, the rest
ErrorHeads == {<<>>, <<"UPSTREAM_STATUS", ":">>, <<"UPSTREAM_STATUS">>,
               <<"x", "UPSTREAM_STATUS", ":">>, <<"b", "a", "d">>}

StatusTexts == {<<>>, <<"4", "2", "9">>, <<"0", "4", "2", "9">>, <<"+", "4", "2", "9">>,
                <<"6", "5", "5", "3", "5">>, <<"6", "5", "5", "3", "6">>,
                <<"a", "b", "c">>, <<"-", "1">>, <<"4", "a">>, <<" ", "5">>, <<"+">>}

ErrorTails == {<<>>, <<":">>, <<":", "r", "a", "t", "e">>, <<":", "x">>, <<":", "1">>, <<"x">>}

ErrorTexts == {h \o s \o t : h \in ErrorHeads, s \in StatusTexts, t \in ErrorTails}

\* the handlers parse the error of a failed upstream call
ParseStatus ==
    /\ \E error \in ErrorTexts :
          last' = [op |-> "parse_upstream_status", error |-> error,
                   ret |-> parse_upstream_status_text(error)]
    /\ UNCHANGED <<extVars, server, vendor, now, env_steps, store, current_id, config,
                   pool, running, quota_mark, run, run_cursor, req, stats>>

NextParse ==
    \/ ParseStatus

\* a running service of either vendor
ParseInit ==
    /\ vendor \in Vendors
    /\ now = 0
    /\ env_steps = 0
    /\ store = [id \in Accounts |-> "ok"]
    /\ current_id = None
    /\ config = DefaultConfig
    /\ pool = EmptyPool
    /\ running = TRUE
    /\ last = NoOp
    /\ quota_mark = None
    /\ run = <<>>
    /\ run_cursor = 0
    /\ req = IdleReq
    /\ stats = EmptyStats
    /\ recorded = <<>>
    /\ keys = NoKeys
    /\ sse = IdleSse
    /\ server = RunningServer
    /\ tok = NoTok
    /\ conc = NoConc

SpecParse == ParseInit /\ [][NextParse]_vars

\* the number a text of digits denotes
RECURSIVE DecimalValue(_)
DecimalValue(text) ==
    IF text = <<>> THEN 0
    ELSE 10 * DecimalValue(SubSeq(text, 1, Len(text) - 1)) + to_digit(text[Len(text)])

\* the digits of a decimal u16: the text without a '+' in front, when it is
\* one digit or more that denote a number up to 65535; <<>> when it is not
DecimalU16(text) ==
    LET digits == IF text # <<>> /\ text[1] = "+" THEN SubSeq(text, 2, Len(text)) ELSE text
    IN  IF /\ digits # <<>>
           /\ \A i \in 1..Len(digits) : digits[i] \in Digits
           /\ DecimalValue(digits) <= U16Max
        THEN digits ELSE <<>>

\* C22: parse_upstream_status returns the status code exactly when the error
\* starts with 'UPSTREAM_STATUS:' followed by a decimal u16 and then ':' or
\* the end of the string; otherwise it returns none.
C22_ParseStatus ==
    last.op = "parse_upstream_status" =>
        LET e == last.error
            ends == {k \in 3..Len(e) :
                        /\ e[1] = "UPSTREAM_STATUS" /\ e[2] = ":"
                        /\ DecimalU16(SubSeq(e, 3, k)) # <<>>
                        /\ (k = Len(e) \/ e[k + 1] = ":")}
        IN  IF ends = {} THEN last.ret = None
            ELSE \A k \in ends :
                    last.ret = Some(DecimalValue(DecimalU16(SubSeq(e, 3, k))))

\* 'UPSTREAM_STATUS:429:rate' gives 429
C22_Witness ==
    /\ last.op = "parse_upstream_status"
    /\ last.error = <<"UPSTREAM_STATUS", ":", "4", "2", "9", ":", "r", "a", "t", "e">>
    /\ last.ret = Some(429)

----------------------------------------------------------------------------
(* The request translation of Vendor-A: antigravity_proxy/translator.rs     *)
(* to_cloud_code_payload, called by the chat handlers before the upstream   *)
(* call.  A content is a JSON value: a string, an array of parts, or        *)
(* something else; a part is an object with a type and a text, or not an    *)
(* object.                                                                  *)

\* how many messages a chat request carries
MaxChatMessages == 2

Ok(v) == [ok |-> TRUE, value |-> v]

Err(e) == [ok |-> FALSE, value |-> e]

TextPart == [object |-> TRUE, type |-> Some("text"), text |-> Some("t")]

ImagePart == [object |-> TRUE, type |-> Some("image_url"), text |-> None]

\* {"type":"text"} without its text, {"text":"t"} without a type, and "t"
PartialPart == [object |-> TRUE, type |-> Some("text"), text |-> None]

UntypedPart == [object |-> TRUE, type |-> None, text |-> Some("t")]

BarePart == [object |-> FALSE, type |-> None, text |-> None]

ContentValues ==
    {[kind |-> "string", parts |-> <<>>],
     [kind |-> "number", parts |-> <<>>],
     [kind |-> "array", parts |-> <<>>],
     [kind |-> "array", parts |-> <<TextPart>>],
     [kind |-> "array", parts |-> <<ImagePart>>],
     [kind |-> "array", parts |-> <<TextPart, ImagePart>>],
     [kind |-> "array", parts |-> <<TextPart, TextPart>>],
     [kind |-> "array", parts |-> <<PartialPart>>],
     [kind |-> "array", parts |-> <<UntypedPart>>],
     [kind |-> "array", parts |-> <<BarePart>>]}

Roles == {"user", "system", "assistant", "tool"}

ChatMessages == UNION {[1..n -> [role : Roles, content : ContentValues]] : n \in 0..MaxChatMessages}

\* the loop of content_to_text over the parts: the number of parts merged
RECURSIVE merge_parts(_, _)
merge_parts(parts, merged) ==
    IF parts = <<>> THEN Ok(merged)
    ELSE LET part == Head(parts)
             part_type == IF IsSome(part.type) THEN part.type[1] ELSE ""
         IN  IF ~part.object THEN Err("message content array item must be object")
             ELSE IF part_type # "text"
             THEN Err("Only text content parts are supported in this proxy")
             ELSE IF ~IsSome(part.text) THEN Err("text part missing string field text")
             ELSE merge_parts(Tail(parts), merged + 1)

\* content_to_text: the number of texts merged (1 for a string)
content_to_text(content) ==
    IF content.kind = "string" THEN Ok(1)
    ELSE IF content.kind = "array" THEN merge_parts(content.parts, 0)
    ELSE Err("message content must be string or text-part array")

\* the loop of to_cloud_code_payload over the messages
RECURSIVE translate_messages(_, _)
translate_messages(messages, contents) ==
    IF messages = <<>> THEN Ok(contents)
    ELSE LET message == Head(messages)
             role == IF message.role \in {"user", "system"} THEN "user"
                     ELSE IF message.role = "assistant" THEN "model" ELSE ""
             text == content_to_text(message.content)
         IN  IF role = "" THEN Err("unsupported message role")
             ELSE IF ~text.ok THEN text
             ELSE translate_messages(Tail(messages),
                                     Append(contents, [role |-> role, parts |-> text.value]))

\* to_cloud_code_payload that takes any role for "user" and leaves out the
\* parts it cannot merge
to_cloud_code_payload_lenient(messages) ==
    IF messages = <<>> THEN Err("messages is required")
    ELSE Ok([i \in 1..Len(messages) |->
                [role |-> IF messages[i].role = "assistant" THEN "model" ELSE "user",
                 parts |-> Len(SelectSeq(messages[i].content.parts,
                                         LAMBDA p : p.type = Some("text")))]])

\* to_cloud_code_payload: the contents of the payload, or the error
to_cloud_code_payload(messages) ==
    IF messages = <<>> THEN Err("messages is required")
    ELSE translate_messages(messages, <<>>)

\* a running Vendor-A service with its accounts in the pool
TranslateInit ==
    /\ vendor = "A"
    /\ now = 0
    /\ env_steps = 0
    /\ store = [id \in Accounts |-> "ok"]
    /\ current_id = None
    /\ config = DefaultConfig
    /\ pool = sync_accounts(EmptyPool, store, config)
    /\ running = TRUE
    /\ last = NoOp
    /\ quota_mark = None
    /\ run = <<>>
    /\ run_cursor = 0
    /\ req = IdleReq
    /\ stats = EmptyStats
    /\ recorded = <<>>
    /\ keys = NoKeys
    /\ sse = IdleSse
    /\ server = RunningServer
    /\ tok = NoTok
    /\ conc = NoConc

\* try_non_stream_openai and handle_openai_stream up to the payload: an
\* account is taken, the request is translated, and an error ends the request
ChatTranslate ==
    /\ req.pc = "idle"
    /\ \E messages \in ChatMessages, stream \in BOOLEAN :
          LET payload == to_cloud_code_payload(messages)
          IN  /\ last' = [op |-> "to_cloud_code_payload", messages |-> messages,
                          ret |-> payload]
              /\ req' = [IdleReq EXCEPT !.pc = IF payload.ok THEN "upstream" ELSE "done",
                                        !.stream = stream, !.takes = 1]
    /\ UNCHANGED <<extVars, server, vendor, now, env_steps, store, current_id, config,
                   pool, running, quota_mark, run, run_cursor, stats>>

\* api::generate_content or stream_generate_content with the payload
ChatGenerate ==
    /\ req.pc = "upstream"
    /\ req' = [req EXCEPT !.pc = "done", !.calls = @ + 1]
    /\ UNCHANGED <<extVars, server, vendor, now, env_steps, store, current_id, config,
                   pool, running, last, quota_mark, run, run_cursor, stats>>

\* the next request
ChatAgain ==
    /\ req.pc = "done"
    /\ req' = IdleReq
    /\ last' = NoOp
    /\ UNCHANGED <<extVars, server, vendor, now, env_steps, store, current_id, config,
                   pool, running, quota_mark, run, run_cursor, stats>>

NextTranslate ==
    \/ ChatTranslate
    \/ ChatGenerate
    \/ ChatAgain

SpecTranslate == TranslateInit /\ [][NextTranslate]_vars

\* message i of the request has a content array with a part that is not a
\* text part, or a role other than user, system, assistant
Untranslatable(i) ==
    LET message == last.messages[i]
    IN  \/ message.role \notin {"user", "system", "assistant"}
        \/ /\ message.content.kind = "array"
           /\ \E k \in 1..Len(message.content.parts) :
                 \/ ~message.content.parts[k].object
                 \/ message.content.parts[k].type # Some("text")

\* C24: Vendor-A to_cloud_code_payload returns an error, and no upstream call
\* is made with a payload, whenever any message has a content array with a
\* part that is not a text part or a role other than user, system, assistant.
C24_TranslationRejects ==
    (last.op = "to_cloud_code_payload" /\ \E i \in 1..Len(last.messages) : Untranslatable(i)) =>
        /\ ~last.ret.ok
        /\ req.calls = 0
        /\ req.pc = "done"

\* the request is over, its first message is fine and its second carries an
\* image part behind a text part
C24_Witness ==
    /\ last.op = "to_cloud_code_payload"
    /\ req.pc = "done"
    /\ Len(last.messages) = 2
    /\ ~Untranslatable(1)
    /\ last.messages[1].content.kind = "string"
    /\ last.messages[2].role = "user"
    /\ last.messages[2].content.parts = <<TextPart, ImagePart>>
    /\ ~last.ret.ok
    /\ req.calls = 0

----------------------------------------------------------------------------
(* start, stop, restart and update_config called side by side: service.rs   *)
(* of both vendors.  A call advances from one .await to the next; between   *)
(* two of its steps the steps of the other calls may run.                   *)

\* how many callers there are, and how many calls they begin in all
NumCallers == 2

MaxServiceCalls == 3

Callers == 1..NumCallers

\* a caller between two calls
IdleCall == [op |-> "none", pc |-> "idle", then_start |-> FALSE, port |-> 0,
             listener |-> None, taken |-> None]

\* RuntimeState.server is None, nothing is bound, no server task runs
ConcInit ==
    /\ vendor \in Vendors
    /\ now = 0
    /\ env_steps = 0
    /\ store = [id \in Accounts |-> "ok"]
    /\ current_id = None
    /\ config = DefaultConfig
    /\ pool = EmptyPool
    /\ running = FALSE
    /\ last = NoOp
    /\ quota_mark = None
    /\ run = <<>>
    /\ run_cursor = 0
    /\ req = IdleReq
    /\ stats = EmptyStats
    /\ recorded = <<>>
    /\ keys = NoKeys
    /\ sse = IdleSse
    /\ server = NoServer
    /\ tok = NoTok
    /\ conc = [calls |-> [c \in Callers |-> IdleCall],
               handle |-> None,     \* state.server: the id of the stored ServerRuntime
               bound |-> {},        \* the TcpListeners alive: [id, port]
               listening |-> {},    \* the ids of the server tasks that serve
               spawned |-> 0,       \* listeners bound so far
               begun |-> 0]         \* calls begun so far

concRest == <<ringVars, authVars, streamVars, tokVars, server, vendor, now, env_steps, store,
              current_id, last, quota_mark, run, run_cursor, req, stats>>

\* the call of caller c moves to pc with some of its locals changed
Moved(c, call) == [conc EXCEPT !.calls[c] = call]

\* a task ends: its listener is closed
Closed(cc, id) ==
    [cc EXCEPT !.bound = {l \in @ : l.id # id}, !.listening = @ \ {id}]

\* a caller begins start(), stop() or restart()
CallBegin(c) ==
    /\ conc.calls[c].pc = "idle"
    /\ conc.begun < MaxServiceCalls
    /\ \E op \in {"start", "stop", "restart"} :
          conc' = [conc EXCEPT
                     !.begun = @ + 1,
                     !.calls[c] = [IdleCall EXCEPT
                                     !.op = op,
                                     !.pc = IF op = "start" THEN "start_read" ELSE "stop_take",
                                     !.then_start = (op = "restart")]]
    /\ UNCHANGED <<concRest, config, pool, running>>

\* update_config: apply_config_patch under the write lock, then restart()
\* when it says so
CallUpdateConfig(c) ==
    /\ conc.calls[c].pc = "idle"
    /\ conc.begun < MaxServiceCalls
    /\ \E port \in Ports :
          LET should_restart ==
                  IF vendor = "K" THEN running
                  ELSE running /\ config.port # port
          IN  /\ config' = [config EXCEPT !.port = port]
              /\ conc' = [conc EXCEPT
                            !.begun = @ + 1,
                            !.calls[c] = IF should_restart
                                         THEN [IdleCall EXCEPT !.op = "update_config",
                                                               !.pc = "stop_take",
                                                               !.then_start = TRUE]
                                         ELSE IdleCall]
    /\ pool' = IF vendor = "A" THEN sync_accounts(pool, store, config') ELSE pool
    /\ UNCHANGED <<concRest, running>>

\* start(): the read lock; a running service returns its status
StartRead(c) ==
    LET call == conc.calls[c]
    IN  /\ call.pc = "start_read"
        /\ conc' = IF running THEN Moved(c, IdleCall)
                   ELSE Moved(c, [call EXCEPT !.pc = "start_bind", !.port = config.port])
        /\ UNCHANGED <<concRest, config, pool, running>>

\* start(): TcpListener::bind fails when the port is taken
StartBind(c) ==
    LET call == conc.calls[c]
        id == conc.spawned + 1
    IN  /\ call.pc = "start_bind"
        /\ conc' = IF \E l \in conc.bound : l.port = call.port
                   THEN Moved(c, IdleCall)
                   ELSE [conc EXCEPT !.spawned = id,
                                     !.bound = @ \cup {[id |-> id, port |-> call.port]},
                                     !.calls[c] = [call EXCEPT !.pc = "start_write",
                                                               !.listener = Some(id)]]
        /\ UNCHANGED <<concRest, config, pool, running>>

\* start(): the write lock, status.running = true, the pool is synced
StartWrite(c) ==
    LET call == conc.calls[c]
    IN  /\ call.pc = "start_write"
        /\ running' = TRUE
        /\ pool' = sync_accounts(pool, store, config)
        /\ conc' = Moved(c, [call EXCEPT !.pc = "start_spawn"])
        /\ UNCHANGED <<concRest, config>>

\* start(): after the status event, tokio::spawn(serve(listener, ..))
StartSpawn(c) ==
    LET call == conc.calls[c]
    IN  /\ call.pc = "start_spawn"
        /\ conc' = [conc EXCEPT !.listening = @ \cup {call.listener[1]},
                                !.calls[c] = [call EXCEPT !.pc = "start_store"]]
        /\ UNCHANGED <<concRest, config, pool, running>>

\* start(): the write lock, state.server = Some(ServerRuntime).  A runtime
\* that was stored before is dropped: its shutdown sender goes, and its task
\* shuts down.
StartStore(c) ==
    LET call == conc.calls[c]
        dropped == IF IsSome(conc.handle) THEN Closed(conc, conc.handle[1]) ELSE conc
    IN  /\ call.pc = "start_store"
        /\ conc' = [dropped EXCEPT !.handle = call.listener, !.calls[c] = IdleCall]
        /\ UNCHANGED <<concRest, config, pool, running>>

\* what follows stop() in the call: start() for a restart
AfterStop(call) ==
    IF call.then_start THEN [call EXCEPT !.pc = "start_read", !.taken = None]
    ELSE IdleCall

\* stop(): the write lock; a stopped service returns its status, a running
\* one is marked stopped and its ServerRuntime is taken out of the state
StopTake(c) ==
    LET call == conc.calls[c]
    IN  /\ call.pc = "stop_take"
        /\ IF ~running
           THEN /\ conc' = Moved(c, AfterStop(call))
                /\ UNCHANGED running
           ELSE /\ running' = FALSE
                /\ conc' = [conc EXCEPT !.handle = None,
                                        !.calls[c] = [call EXCEPT !.pc = "stop_join",
                                                                  !.taken = conc.handle]]
        /\ UNCHANGED <<concRest, config, pool>>

\* stop(): the shutdown is sent and the server task joined, when a runtime
\* was taken; then the stats are persisted and the status event goes out
StopJoin(c) ==
    LET call == conc.calls[c]
        joined == IF IsSome(call.taken) THEN Closed(conc, call.taken[1]) ELSE conc
    IN  /\ call.pc = "stop_join"
        /\ conc' = [joined EXCEPT !.calls[c] = AfterStop(call)]
        /\ UNCHANGED <<concRest, config, pool, running>>

NextConc ==
    \/ \E c \in Callers : CallBegin(c)
    \/ \E c \in Callers : CallUpdateConfig(c)
    \/ \E c \in Callers : StartRead(c)
    \/ \E c \in Callers : StartBind(c)
    \/ \E c \in Callers : StartWrite(c)
    \/ \E c \in Callers : StartSpawn(c)
    \/ \E c \in Callers : StartStore(c)
    \/ \E c \in Callers : StopTake(c)
    \/ \E c \in Callers : StopJoin(c)

SpecConc == ConcInit /\ [][NextConc]_vars

\* no call is in progress
Quiescent == \A c \in Callers : conc.calls[c].pc = "idle"

\* C25: under any interleaving of start, stop, restart and update_config,
\* whenever no call is in progress status.running holds iff a server handle
\* is stored and its task is listening; and when running is false no server
\* task is listening and the port is free.
C25_RunningIffListening ==
    Quiescent =>
        /\ running <=> (IsSome(conc.handle) /\ conc.handle[1] \in conc.listening)
        /\ ~running => (conc.listening = {} /\ conc.bound = {})

----------------------------------------------------------------------------
(* The write lock of the service state and the persistence writes:          *)
(* service.rs of both vendors.  A mutating operation takes the lock of      *)
(* RwLock<RuntimeState>, changes the state, and saves a file before or      *)
(* after it lets the lock go.                                               *)

\* how many mutating calls the callers begin in all
MaxLockCalls == 3

\* the operations that change the state and persist it
MutatingOps(v) ==
    {"record_request_log", "clear_logs", "reset_stats", "refresh_models",
     "apply_config_patch"}
    \cup (IF v = "K" THEN {"apply_api_key_usage", "add_api_key"} ELSE {})

\* the files an operation saves
saved_files(op) ==
    CASE op = "record_request_log" -> {"stats", "logs"}
      [] op = "clear_logs" -> {"logs"}
      [] op = "reset_stats" -> {"stats"}
      [] op = "refresh_models" -> {"model_cache"}
      [] OTHER -> {"user_config"}

\* does the operation save inside its write-lock block
saves_in_lock_block(v, op) ==
    CASE op = "record_request_log" -> v = "K"
      [] op = "clear_logs" -> TRUE
      [] op = "reset_stats" -> TRUE
      [] op = "refresh_models" -> v = "A"
      [] op = "apply_config_patch" -> FALSE
      [] OTHER -> TRUE

\* the state change of the operation on the stats store
mutate_stats(op, st, log) ==
    CASE op = "record_request_log" -> record(st, log)
      [] op = "clear_logs" -> clear_logs(st)
      [] op = "reset_stats" -> reset(st)
      [] OTHER -> st

IdleLockCall == [op |-> "none", pc |-> "idle"]

LockInit ==
    /\ vendor \in Vendors
    /\ now = 0
    /\ env_steps = 0
    /\ store = [id \in Accounts |-> "ok"]
    /\ current_id = None
    /\ config = DefaultConfig
    /\ pool = EmptyPool
    /\ running = TRUE
    /\ last = NoOp
    /\ quota_mark = None
    /\ run = <<>>
    /\ run_cursor = 0
    /\ req = IdleReq
    /\ stats = EmptyStats
    /\ recorded = <<>>
    /\ keys = NoKeys
    /\ sse = IdleSse
    /\ server = RunningServer
    /\ tok = NoTok
    /\ conc = [calls |-> [c \in Callers |-> IdleLockCall],
               lock |-> None,       \* the caller that holds state.write()
               files |-> {},        \* the files saved so far
               begun |-> 0]

lockRest == <<ringVars, authVars, streamVars, tokVars, server, vendor, now, env_steps, store,
              current_id, config, pool, running, quota_mark, run, run_cursor, req>>

\* self.state.write().await and the change of the state under it
LockAcquire(c) ==
    /\ conc.calls[c].pc = "idle"
    /\ conc.begun < MaxLockCalls
    /\ conc.lock = None
    /\ \E op \in MutatingOps(vendor), input \in LogInputs :
          /\ stats' = mutate_stats(op, stats, RequestLog(input, conc.begun + 1))
          /\ conc' = [conc EXCEPT
                        !.lock = Some(c),
                        !.begun = @ + 1,
                        !.calls[c] = [op |-> op,
                                      pc |-> IF saves_in_lock_block(vendor, op)
                                             THEN "save_locked" ELSE "unlock_first"]]
    /\ UNCHANGED <<lockRest, last>>

\* save_persisted_stats, save_request_logs, save_model_cache, save_user_config
LockSave(c) ==
    LET call == conc.calls[c]
    IN  /\ call.pc \in {"save_locked", "save_unlocked"}
        /\ last' = [op |-> "save", of |-> call.op, caller |-> c, lock |-> conc.lock]
        /\ conc' = [conc EXCEPT
                      !.files = @ \cup saved_files(call.op),
                      !.calls[c] = IF call.pc = "save_locked"
                                   THEN [call EXCEPT !.pc = "unlock_last"]
                                   ELSE IdleLockCall]
        /\ UNCHANGED <<lockRest, stats>>

\* the write guard is dropped
LockRelease(c) ==
    LET call == conc.calls[c]
    IN  /\ call.pc \in {"unlock_first", "unlock_last"}
        /\ conc' = [conc EXCEPT
                      !.lock = None,
                      !.calls[c] = IF call.pc = "unlock_first"
                                   THEN [call EXCEPT !.pc = "save_unlocked"]
                                   ELSE IdleLockCall]
        /\ UNCHANGED <<lockRest, stats, last>>

NextLock ==
    \/ \E c \in Callers : LockAcquire(c)
    \/ \E c \in Callers : LockSave(c)
    \/ \E c \in Callers : LockRelease(c)

SpecLock == LockInit /\ [][NextLock]_vars

\* C26: no persistence write (aggregate stats, request logs, model cache,
\* user config) is performed while the caller holds the write lock of the
\* service state.
C26_NoSaveUnderWriteLock ==
    last.op = "save" => last.lock # Some(last.caller)

----------------------------------------------------------------------------
(* refresh_models and get_models called side by side: service.rs of both    *)
(* vendors.  model_refresh_lock is held from the first line of              *)
(* refresh_models to its return.  The clock counts seconds: an upstream     *)
(* call may take long, the steps between two upstream calls take less than  *)
(* a few ticks in all.                                                      *)

\* how many get_models / refresh_models calls begin in all, and how many
\* times the clock ticks outside an upstream call
MaxRefreshCalls == 2

MaxClockTicks == 1

\* model_cache_ttl_sec(config): config.model_cache_ttl_sec.max(30)
ModelCacheTtl == 30

\* Vendor-K refresh_models takes a cache of up to 5 seconds for fresh
KiroRefreshWindow == 5

\* how long an upstream call may take
FetchSeconds == {0, 40}

\* ModelCacheState; models is the number of the upstream list it holds
ModelCache(t, models, source_ok) ==
    [updated_at |-> t, models |-> models, source_ok |-> source_ok]

\* the cache check of get_models
fresh_for_get(v, cache, t) ==
    /\ IsSome(cache)
    /\ IF v = "A"
       THEN t - cache[1].updated_at >= 0 /\ t - cache[1].updated_at <= ModelCacheTtl
       ELSE t - cache[1].updated_at <= ModelCacheTtl /\ cache[1].source_ok

\* a refresh_models that never takes the cache for fresh
fresh_for_refresh_never(v, cache, t) == FALSE

\* the cache check of refresh_models, with the refresh lock held
fresh_for_refresh(v, cache, t) ==
    /\ IsSome(cache)
    /\ t - cache[1].updated_at >= 0
    /\ IF v = "A"
       THEN t - cache[1].updated_at <= ModelCacheTtl
       ELSE cache[1].source_ok /\ t - cache[1].updated_at <= KiroRefreshWindow

IdleRefreshCall ==
    [op |-> "none", pc |-> "idle", fetches |-> 0, waited |-> FALSE, behind |-> FALSE,
     stale |-> None, refreshed |-> FALSE, account |-> 0, attempt |-> 0,
     had_success |-> FALSE]

RefreshInit ==
    /\ vendor \in Vendors
    /\ now = 0
    /\ env_steps = 0
    /\ store \in RetryStores
    /\ current_id = None
    /\ config = [DefaultConfig EXCEPT !.max_retries = 2]
    /\ pool = sync_accounts(EmptyPool, store, config)
    /\ running = TRUE
    /\ last = NoOp
    /\ quota_mark = None
    /\ run = <<>>
    /\ run_cursor = 0
    /\ req = IdleReq
    /\ stats = EmptyStats
    /\ recorded = <<>>
    /\ keys = NoKeys
    /\ sse = IdleSse
    /\ server = RunningServer
    /\ tok = NoTok
    /\ \E cache \in {None, Some(ModelCache(0 - 100, 0, TRUE)), Some(ModelCache(0, 0, FALSE))} :
          conc = [calls |-> [c \in Callers |-> IdleRefreshCall],
                  mutex |-> None,      \* the caller that holds model_refresh_lock
                  cache |-> cache,     \* state.model_cache
                  lists |-> 0,         \* upstream lists fetched so far
                  ticks |-> 0,
                  begun |-> 0]

refreshRest == <<ringVars, authVars, streamVars, tokVars, server, vendor, env_steps, store,
                 current_id, config, running, quota_mark, run, run_cursor, req, stats>>

\* the call of caller c returns; when it held the refresh lock the lock is
\* free again, and the calls that wait for it have waited behind a refresh
\* that has or has not fetched a list
ModelsReturned(cc, c, ok, ret, fetched) ==
    LET call == cc.calls[c]
        held == cc.mutex = Some(c)
    IN  /\ last' = [op |-> "models_returned",
                    waited |-> call.waited, behind |-> call.behind,
                    fetches |-> call.fetches, ok |-> ok, ret |-> ret,
                    cached |-> IF IsSome(cc.cache) THEN Some(cc.cache[1].models) ELSE None]
        /\ conc' = [cc EXCEPT
                      !.mutex = IF held THEN None ELSE @,
                      !.calls = [w \in Callers |->
                                   IF w = c THEN IdleRefreshCall
                                   ELSE IF held /\ call.fetches > 0
                                           /\ cc.calls[w].pc = "lock" /\ cc.calls[w].waited
                                   THEN [cc.calls[w] EXCEPT !.behind = fetched]
                                   ELSE cc.calls[w]]]

\* get_models with a fresh cache returns it; otherwise, and for
\* refresh_models, the caller goes for the refresh lock
RefreshBegin(c) ==
    /\ conc.calls[c].pc = "idle"
    /\ conc.begun < MaxRefreshCalls
    /\ \E op \in {"get_models", "refresh_models"} :
          LET begun == [conc EXCEPT !.begun = @ + 1,
                                    !.calls[c] = [IdleRefreshCall EXCEPT !.op = op,
                                                                         !.pc = "lock"]]
          IN  IF op = "get_models" /\ fresh_for_get(vendor, conc.cache, now)
              THEN ModelsReturned(begun, c, TRUE, Some(conc.cache[1].models), FALSE)
              ELSE conc' = begun /\ UNCHANGED last
    /\ UNCHANGED <<refreshRest, now, pool>>

\* model_refresh_lock.lock().await while another caller holds the lock
RefreshWait(c) ==
    /\ conc.calls[c].pc = "lock"
    /\ conc.mutex # None
    /\ ~conc.calls[c].waited
    /\ conc' = [conc EXCEPT !.calls[c].waited = TRUE]
    /\ UNCHANGED <<refreshRest, now, pool, last>>

\* the lock is taken; a fresh cache is returned, otherwise the pool is synced
\* and the accounts for the upstream calls are picked
RefreshAcquire(c) ==
    LET call == conc.calls[c]
        held == [conc EXCEPT !.mutex = Some(c)]
        synced == sync_accounts(pool, store, config)
    IN  /\ call.pc = "lock"
        /\ conc.mutex = None
        /\ IF fresh_for_refresh(vendor, conc.cache, now)
           THEN /\ ModelsReturned(held, c, TRUE, Some(conc.cache[1].models), FALSE)
                /\ UNCHANGED pool
           ELSE /\ pool' = synced
                /\ IF synced.order = <<>>
                   THEN ModelsReturned(held, c, FALSE, None, FALSE)
                   ELSE /\ conc' = [held EXCEPT
                                      !.calls[c] = [call EXCEPT !.pc = "fetch",
                                                                !.stale = conc.cache,
                                                                !.account = 1]]
                        /\ UNCHANGED last
        /\ UNCHANGED <<refreshRest, now>>

\* the refresh stores the list it fetched and returns it
StoreFetched(cc, c, t) ==
    LET list == cc.lists
    IN  ModelsReturned([cc EXCEPT !.cache = Some(ModelCache(t, list, TRUE))],
                 c, TRUE, Some(list), TRUE)

\* Vendor-A after a failed fetch: touch_model_cache and the stale list, or
\* the error
StaleOrError(cc, c, t) ==
    LET stale == cc.calls[c].stale
    IN  IF IsSome(stale)
        THEN ModelsReturned([cc EXCEPT !.cache = Some(ModelCache(t, stale[1].models,
                                                           stale[1].source_ok))],
                      c, TRUE, Some(stale[1].models), FALSE)
        ELSE ModelsReturned(cc, c, FALSE, None, FALSE)

\* Vendor-K: the loop goes on with the next attempt, the next account, or
\* ends: an error when no account gave a list, the stored list otherwise
KiroGoOn(cc, c, t, next_attempt) ==
    LET call == cc.calls[c]
    IN  IF next_attempt /\ call.attempt + 1 < max_attempts(config)
        THEN conc' = [cc EXCEPT !.calls[c].attempt = @ + 1] /\ UNCHANGED last
        ELSE IF call.account < Len(pool.order)
        THEN /\ conc' = [cc EXCEPT !.calls[c].account = @ + 1, !.calls[c].attempt = 0]
             /\ UNCHANGED last
        ELSE IF call.had_success THEN StoreFetched(cc, c, t)
        ELSE ModelsReturned(cc, c, FALSE, None, FALSE)

\* one upstream model-list call of the holder of the lock, and what the
\* holder does with its result
RefreshFetch(c) ==
    LET call == conc.calls[c]
    IN  /\ call.pc = "fetch"
        /\ \E res \in {"ok", "auth", "auth_refreshed", "quota", "server"},
              d \in FetchSeconds :
              LET t == now + d
                  token_ok == res = "auth_refreshed"
                  called == [conc EXCEPT !.calls[c].fetches = @ + 1,
                                         !.lists = IF res = "ok" THEN @ + 1 ELSE @]
              IN  /\ now' = t
                  /\ IF vendor = "A"
                     THEN IF res = "ok" THEN StoreFetched(called, c, t)
                          ELSE IF token_ok /\ ~call.refreshed
                          THEN /\ conc' = [called EXCEPT !.calls[c].refreshed = TRUE]
                               /\ UNCHANGED last
                          ELSE StaleOrError(called, c, t)
                     ELSE IF res = "ok"
                          THEN KiroGoOn([called EXCEPT !.calls[c].had_success = TRUE],
                                        c, t, FALSE)
                          ELSE IF res \in {"auth", "auth_refreshed"}
                          THEN KiroGoOn(called, c, t, token_ok)
                          ELSE IF res = "quota" THEN KiroGoOn(called, c, t, FALSE)
                          ELSE KiroGoOn(called, c, t, TRUE)
        /\ UNCHANGED <<refreshRest, pool>>

\* a second passes outside the upstream calls
RefreshTick ==
    /\ conc.ticks < MaxClockTicks
    /\ now' = now + 1
    /\ conc' = [conc EXCEPT !.ticks = @ + 1]
    /\ UNCHANGED <<refreshRest, pool, last>>

NextRefresh ==
    \/ \E c \in Callers : RefreshBegin(c)
    \/ \E c \in Callers : RefreshWait(c)
    \/ \E c \in Callers : RefreshAcquire(c)
    \/ \E c \in Callers : RefreshFetch(c)
    \/ RefreshTick

SpecRefresh == RefreshInit /\ [][NextRefresh]_vars

AttemptBudget == IF config.max_retries > 1 THEN config.max_retries ELSE 1

\* the upstream calls one attempt may make: Vendor-A the first call, one
\* retry after a token refresh and one after the invalid-project repair;
\* Vendor-K one call on each endpoint
CallBudget == IF vendor = "A" THEN 3 ELSE 2

\* the upstream calls the running attempt can still make
CallsLeft ==
    IF vendor = "A"
    THEN CallBudget - (IF req.refreshed_once THEN 1 ELSE 0)
                    - (IF req.retried_without_project THEN 1 ELSE 0)
    ELSE Len(ordered_endpoints(vendor, config.preferred_endpoint)) - req.endpoint + 1

\* a bound on the steps the request still takes; it falls with every step
Rank(rq, left) ==
    LET width == CallBudget + 2
    IN  IF rq.pc = "done" THEN 0
        ELSE IF rq.pc = "take" THEN (AttemptBudget - rq.attempt) * width + 1
        ELSE IF rq.pc = "call" THEN (AttemptBudget - rq.attempt - 1) * width + 1 + left
        ELSE AttemptBudget * width + 2

\* every step of a request brings it nearer to its end
Decreases ==
    /\ CallsLeft' >= 0
    /\ Rank(req', CallsLeft') < Rank(req, CallsLeft)

\* one upstream call within an attempt is on an endpoint the attempt has not
\* tried (Vendor-K), and after a refresh or a project repair (Vendor-A)
CallWithinBudget ==
    (req'.calls = req.calls + 1 /\ req.pc = "call") =>
        IF vendor = "K"
        THEN \E ep \in req'.tried : ep \notin req.tried
        ELSE req.attempt_calls =
                (IF req.refreshed_once THEN 1 ELSE 0)
                + (IF req.retried_without_project THEN 1 ELSE 0)

\* C28: the retry loop of a client request always terminates within fixed
\* budgets: it takes at most max(1, config.max_retries) accounts from the
\* pool; within one attempt there is at most one token-refresh retry and at
\* most one invalid-project retry, so an attempt makes at most 3 upstream
\* calls for Vendor-A, and at most one call per endpoint (2 in total) for
\* Vendor-K; and every step lowers a bound on the steps that remain.
C28_RetryBudgets ==
    /\ [](/\ req.takes <= AttemptBudget
          /\ req.attempt_calls <= CallBudget
          /\ req.calls <= req.takes * CallBudget
          /\ vendor = "K" => req.attempt_calls = Cardinality(req.tried))
    /\ [][CallWithinBudget /\ Decreases]_req

\* a request has used its whole budget: every attempt, each with every call
C28_Witness ==
    /\ req.pc = "done"
    /\ AttemptBudget >= 2
    /\ req.takes = AttemptBudget
    /\ req.attempt_calls = CallBudget
    /\ req.calls = req.takes * CallBudget

(***************************************************************************)
(* The token refresh of Vendor-A around an upstream 401/403:               *)
(* antigravity_proxy/service.rs refresh_account_token and the inner loop   *)
(* of server.rs.  The upstream accepts the access tokens it holds valid; it *)
(* may stop accepting a token before the expiry the account records.       *)
(***************************************************************************)

MaxTokenRequests == 2

MaxTokenTicks == 2

\* default_proxy_token_refresh_before_expiry_sec
TokenRefreshBeforeExpirySec == 300

\* how far the clock moves between two steps
TokenTickSeconds == 200

\* expiry_timestamp of the stored token: past, within the threshold, far
TokenExpiries == {0 - 10, 200, 4000}

\* oauth::ensure_fresh_token: a new token that lives for an hour, or the
\* error of the flow
ensure_fresh_token(token, t, flow_ok) ==
    IF flow_ok
    THEN Ok([access_token |-> token.access_token + 1,
             expiry_timestamp |-> t + 3600])
    ELSE Err("refresh failed")

\* refresh_account_token: the stored token when it is not about to expire,
\* otherwise the result of the refresh flow; saved when it has changed
refresh_account_token(token, t, flow_ok) ==
    LET unexpired == token.expiry_timestamp > t + TokenRefreshBeforeExpirySec
        refreshed == IF unexpired THEN Ok(token) ELSE ensure_fresh_token(token, t, flow_ok)
    IN  [result |-> refreshed,
         invoked |-> ~unexpired,
         saved |-> /\ refreshed.ok
                   /\ refreshed.value # token]

\* a request for a chat completion has taken the account
NewTokenRequest ==
    [pc |-> "call", refreshed_once |-> FALSE, rejected |-> None,
     invoked |-> FALSE, retried |-> FALSE]

TokenInit ==
    /\ vendor = "A"
    /\ now = 0
    /\ env_steps = 0
    /\ store \in RetryStores
    /\ store["a1"] = "ok"
    /\ current_id = None
    /\ config = DefaultConfig
    /\ pool = sync_accounts(EmptyPool, store, config)
    /\ running = TRUE
    /\ last = NoOp
    /\ quota_mark = None
    /\ run = <<>>
    /\ run_cursor = 0
    /\ req = IdleReq
    /\ stats = EmptyStats
    /\ recorded = <<>>
    /\ keys = NoKeys
    /\ sse = IdleSse
    /\ server = RunningServer
    /\ conc = NoConc
    /\ \E expiry \in TokenExpiries, valid \in {{}, {1}} :
          tok = [request |-> NewTokenRequest,
                 token |-> [access_token |-> 1, expiry_timestamp |-> expiry],
                 valid |-> valid,      \* the access tokens the upstream accepts
                 saves |-> 0,          \* account::save_account calls
                 requests |-> 1,
                 ticks |-> 0]

tokenRest == <<ringVars, authVars, streamVars, concVars, server, vendor, env_steps,
               store, current_id, config, pool, running, last, quota_mark, run,
               run_cursor, req, stats>>

\* api::generate_content with the account's token, and the match on its
\* result: a 401/403 goes to refresh_account_token once
TokenCall ==
    LET rq == tok.request
        accepted == tok.token.access_token \in tok.valid
    IN  /\ rq.pc = "call"
        /\ \E status \in IF accepted THEN {200, 500} ELSE {401, 403} :
              LET called == [rq EXCEPT !.retried = rq.refreshed_once]
              IN  tok' = [tok EXCEPT !.request =
                            IF status \in {401, 403} /\ ~rq.refreshed_once
                            THEN [called EXCEPT !.pc = "refresh",
                                                !.rejected = Some(tok.token.access_token)]
                            ELSE [called EXCEPT !.pc = "done"]]
        /\ UNCHANGED <<tokenRest, now>>

\* state.service.refresh_account_token(&account.id): Ok(updated) sets
\* refreshed_once and calls again, Err returns the upstream error
TokenRefresh ==
    LET rq == tok.request
    IN  /\ rq.pc = "refresh"
        /\ \E flow_ok \in BOOLEAN :
              LET r == refresh_account_token(tok.token, now, flow_ok)
              IN  tok' = IF r.result.ok
                         THEN [tok EXCEPT !.token = r.result.value,
                                          !.valid = @ \cup {r.result.value.access_token},
                                          !.saves = IF r.saved THEN @ + 1 ELSE @,
                                          !.request = [rq EXCEPT !.pc = "call",
                                                                 !.refreshed_once = TRUE,
                                                                 !.invoked = r.invoked]]
                         ELSE [tok EXCEPT !.request = [rq EXCEPT !.pc = "done",
                                                                 !.invoked = r.invoked]]
        /\ UNCHANGED <<tokenRest, now>>

\* the next request with the same account
TokenNext ==
    /\ tok.request.pc = "done"
    /\ tok.requests < MaxTokenRequests
    /\ tok' = [tok EXCEPT !.request = NewTokenRequest, !.requests = @ + 1]
    /\ UNCHANGED <<tokenRest, now>>

\* the upstream stops accepting the tokens it has handed out
TokenRevoke ==
    /\ tok.valid # {}
    /\ tok' = [tok EXCEPT !.valid = {}]
    /\ UNCHANGED <<tokenRest, now>>

TokenTick ==
    /\ tok.ticks < MaxTokenTicks
    /\ now' = now + TokenTickSeconds
    /\ tok' = [tok EXCEPT !.ticks = @ + 1]
    /\ UNCHANGED tokenRest

NextToken ==
    \/ TokenCall
    \/ TokenRefresh
    \/ TokenNext
    \/ TokenRevoke
    \/ TokenTick

SpecToken == TokenInit /\ [][NextToken]_vars

\* C29: the Token Refresher refreshes the access token on an upstream
\* 401/403 as well as before expiry: when the retry loop has called
\* refresh_account_token after a 401 or 403, the upstream refresh flow was
\* invoked, and the call that is retried does not carry the rejected token.
C29_RefreshOnRejection ==
    (tok.request.pc = "call" /\ tok.request.refreshed_once) =>
        /\ tok.request.invoked
        /\ Some(tok.token.access_token) # tok.request.rejected

(***************************************************************************)
(* The account pool with update_account among its operations.              *)
(***************************************************************************)

\* refresh_account_token hands the refreshed account to the pool
PoolUpdateAccount ==
    /\ env_steps < MaxEnvSteps
    /\ \E id \in Accounts :
          /\ pool' = update_account(pool, id)
          /\ last' = [op |-> "update_account", cur |-> None, ret |-> Some(id)]
    /\ env_steps' = env_steps + 1
    /\ UNCHANGED <<extVars, server, vendor, now, store, config, quota_mark, run,
                   run_cursor, serviceVars>>

NextPoolOps ==
    \/ NextPool
    \/ PoolUpdateAccount

SpecPoolOps == PoolInit /\ [][NextPoolOps]_vars

\* C30: after any sequence of sync_accounts, next_account, update_account,
\* record_success and record_error calls the cursor is less than the number
\* of pooled accounts when the pool is non-empty and 0 when it is empty, and
\* the set of the ids in `order` equals the key set of the account map.
C30_PoolWellFormed ==
    /\ pool.order # <<>> => pool.cursor < Len(pool.order)
    /\ pool.order = <<>> => pool.cursor = 0
    /\ pool.cursor >= 0
    /\ {pool.order[i] : i \in 1..Len(pool.order)} = DOMAIN pool.accounts

\* an account of a pool of one, which has served requests, has been updated
C30_Witness ==
    /\ last.op = "update_account"
    /\ last.ret[1] \in DOMAIN pool.accounts
    /\ Len(pool.order) = 1
    /\ env_steps = MaxEnvSteps
    /\ \E id \in DOMAIN pool.accounts : pool.accounts[id].request_count > 0

(***************************************************************************)
(* What sync_accounts keeps of the pool.                                   *)
(***************************************************************************)

\* a step of the pool on its own that is a sync_accounts call: the other
\* operations spend an environment step, change the configuration or
\* record a next_account
IsSyncStep ==
    /\ env_steps' = env_steps
    /\ config' = config
    /\ now' = now
    /\ store' = store
    /\ last' = NoOp

\* the counters and the cooldown of the ids that stay are the same after
\* the step, and the ids that come in start from zero with no cooldown
SyncFrame ==
    \A id \in DOMAIN pool'.accounts :
        IF id \in DOMAIN pool.accounts
        THEN /\ pool'.accounts[id].request_count = pool.accounts[id].request_count
             /\ pool'.accounts[id].error_count = pool.accounts[id].error_count
             /\ pool'.accounts[id].cooldown_until = pool.accounts[id].cooldown_until
        ELSE /\ pool'.accounts[id].request_count = 0
             /\ pool'.accounts[id].error_count = 0
             /\ pool'.accounts[id].cooldown_until = <<>>

\* C31: sync_accounts leaves request_count, error_count and cooldown_until
\* unchanged for every account id that is in the pool both before and after
\* the sync, and gives an id that enters the pool (newly, or again after
\* having been filtered out) zero counters and no cooldown.
C31_SyncKeepsCounters == [][IsSyncStep => SyncFrame]_vars

\* an account that had a quota error is in the pool again with zero counters
\* and no cooldown, next to an account that has kept its error count
C31_Witness ==
    /\ IsSome(quota_mark)
    /\ quota_mark[1].id \in DOMAIN pool.accounts
    /\ pool.accounts[quota_mark[1].id].request_count = 0
    /\ pool.accounts[quota_mark[1].id].error_count = 0
    /\ pool.accounts[quota_mark[1].id].cooldown_until = <<>>
    /\ \E id \in DOMAIN pool.accounts :
          /\ pool.accounts[id].error_count > 0
          /\ IsSome(pool.accounts[id].cooldown_until)

(***************************************************************************)
(* next_account on a pool whose accounts are all in cooldown.              *)
(***************************************************************************)

\* every pooled account has a cooldown deadline that lies ahead
EveryAccountCooling ==
    /\ pool.order # <<>>
    /\ \A id \in DOMAIN pool.accounts :
          /\ pool.accounts[id].cooldown_until # <<>>
          /\ pool.accounts[id].cooldown_until[1] > now

\* C32: when the pool is non-empty and every account in it is in cooldown,
\* next_account still returns an account (never none), and the account
\* returned is one whose cooldown_until is the smallest in the pool.
C32_ShortestCooldown ==
    (last.op = "next_account" /\ EveryAccountCooling) =>
        /\ last.ret # <<>>
        /\ last.ret[1] \in DOMAIN pool.accounts
        /\ \A id \in DOMAIN pool.accounts :
              pool.accounts[last.ret[1]].cooldown_until[1]
                 <= pool.accounts[id].cooldown_until[1]

\* next_account has answered on a pool of accounts that are all in
\* cooldown, with deadlines that differ
C32_Witness ==
    /\ last.op = "next_account"
    /\ EveryAccountCooling
    /\ last.ret # <<>>
    /\ \E id \in DOMAIN pool.accounts :
          pool.accounts[id].cooldown_until[1]
             > pool.accounts[last.ret[1]].cooldown_until[1]

(***************************************************************************)
(* start() on a running service, and start() whose bind fails.             *)
(***************************************************************************)

\* start() called while the service runs; the address is taken by the
\* service's own listener, or by nothing the call would find out about
SvcStartRunning ==
    /\ running
    /\ \E bind_ok \in BOOLEAN :
          LET o == start(vendor, SvcState, bind_ok)
          IN  /\ running' = o.state.running
              /\ pool' = o.state.pool
              /\ server' = o.state.server
              /\ last' = [op |-> "start", prev |-> "running", ret |-> None, ok |-> o.ok]
    /\ UNCHANGED <<extVars, vendor, now, env_steps, store, current_id, config,
                   quota_mark, run, run_cursor, req, stats>>

NextStart ==
    \/ NextLifecycle
    \/ SvcStartRunning

SpecStart == ServiceInit /\ [][NextStart]_vars

\* a step that is a call of start()
StartStep == last'.op = "start"

\* the call has bound no listener, spawned no task and emitted no event, and
\* the status and the pool are what they were
StartDidNothing ==
    /\ running' = running
    /\ pool' = pool
    /\ server'.listener = server.listener
    /\ server'.status_host = server.status_host
    /\ server'.status_port = server.status_port
    /\ server'.events = <<>>
    /\ \A i \in 1..Len(server'.steps) : server'.steps[i] \notin {"bind", "spawn"}

\* C33: start() on a service that is already running returns the current
\* status without binding a listener, spawning a task or emitting an event;
\* and a start() whose bind fails returns an error and leaves the state as
\* it was (running = false, no server handle, no status-change event).
C33_StartGuards ==
    [][StartStep =>
          /\ running => (last'.ok /\ running' /\ server'.steps = <<>> /\ StartDidNothing)
          /\ (~running /\ ~last'.ok) =>
                (~running' /\ server'.listener = <<>> /\ StartDidNothing)
          /\ (~running /\ last'.ok) => running']_vars

\* start() has returned on a service that was running
C33_Witness ==
    /\ last.op = "start"
    /\ last.prev = "running"
    /\ last.ok
    /\ running
    /\ server.listener # <<>>
    /\ server.steps = <<>>
    /\ server.events = <<>>

(***************************************************************************)
(* A streaming response whose client goes away.                            *)
(***************************************************************************)

\* the client disconnects: the response body, and with it the receiver of
\* the channel, is dropped while the spawned task runs
SseDisconnect ==
    /\ sse.pc \in {"take", "call"}
    /\ sse.connected
    /\ sse' = [sse EXCEPT !.connected = FALSE]
    /\ UNCHANGED <<notStream, vendor, now, env_steps, store, current_id, config, pool,
                   running, last, quota_mark, run, run_cursor, req, stats>>

NextDisconnect ==
    \/ NextStream
    \/ SseDisconnect

SpecDisconnect == StreamInit /\ [][NextDisconnect]_vars

\* C34: when the client of a streaming request disconnects, the producer
\* task detects the failed channel send on the next chunk it produces and
\* terminates the upstream read: after the first failed send it makes no
\* further upstream read and takes no further account.
C34_StopsAfterFailedSend ==
    [][sse.send_failed => (sse'.msgs = sse.msgs /\ sse'.account = sse.account)]_vars

(***************************************************************************)
(* The tool uses of one upstream stream: kiro_proxy/event_stream.rs,       *)
(* parse_aws_event_stream and flush_tool_use.  An event carries a          *)
(* toolUseId, a name, possibly an input (a string fragment, or an object   *)
(* or array) and possibly stop = true.  The text of an input is the        *)
(* position of its event in the stream, so that every input is told apart. *)
(***************************************************************************)

MaxToolEvents == 4

ToolIds == {"t1", "t2"}

InputKinds == {"none", "str", "obj"}

\* the empty object that a blank input_buffer is flushed as
EmptyObject == <<[kind |-> "obj", n |-> 0]>>

\* flush_tool_use: the buffer parsed as JSON (the parse, or the error
\* object, holds the text of the buffer), or {} when the buffer is blank
flush_tool_use(state) ==
    [tool_use_id |-> state.tool_use_id,
     name |-> state.name,
     input |-> IF state.input_buffer = <<>> THEN EmptyObject ELSE state.input_buffer]

\* on_message(KiroStreamMessage::ToolUse { tool_use }), at event `at`
on_tool_use(ps, tool_use, at) ==
    [ps EXCEPT !.out = Append(@, [tool_use_id |-> tool_use.tool_use_id,
                                  input |-> tool_use.input,
                                  at |-> at])]

\* the first part of the toolUseEvent branch: another id arrives, the active
\* tool is flushed; the tool of the event becomes the active one
open_tool(ps, ev, at) ==
    LET flushed ==
          IF /\ IsSome(ps.current_tool)
             /\ ps.current_tool[1].tool_use_id # ev.id
             /\ ps.current_tool[1].tool_use_id \notin ps.processed_tool_ids
          THEN [on_tool_use(ps, flush_tool_use(ps.current_tool[1]), at)
                  EXCEPT !.processed_tool_ids = @ \cup {ps.current_tool[1].tool_use_id},
                         !.current_tool = None]
          ELSE ps
    IN  IF flushed.current_tool = None /\ ev.id \notin flushed.processed_tool_ids
        THEN [flushed EXCEPT !.current_tool =
                Some([tool_use_id |-> ev.id, name |-> "fn", input_buffer |-> <<>>])]
        ELSE flushed

\* the input of the event goes to the active tool: a string is pushed to the
\* buffer, an object or array takes its place
push_input(ps, ev, at) ==
    IF IsSome(ps.current_tool) /\ ev.input # "none"
    THEN [ps EXCEPT !.current_tool[1].input_buffer =
            IF ev.input = "str" THEN Append(@, [kind |-> "str", n |-> at])
            ELSE <<[kind |-> "obj", n |-> at]>>]
    ELSE ps

\* stop = true: the active tool is taken and flushed
stop_tool(ps, ev, at) ==
    IF ev.stop /\ IsSome(ps.current_tool)
    THEN LET active == ps.current_tool[1]
             taken == [ps EXCEPT !.current_tool = None]
         IN  IF active.tool_use_id \notin ps.processed_tool_ids
             THEN [on_tool_use(taken, flush_tool_use(active), at)
                     EXCEPT !.processed_tool_ids = @ \cup {active.tool_use_id}]
             ELSE taken
    ELSE ps

\* a toolUseEvent branch that does not look at processed_tool_ids
tool_use_event_again(ps, ev, at) ==
    LET flushed ==
          IF /\ IsSome(ps.current_tool)
             /\ ps.current_tool[1].tool_use_id # ev.id
          THEN [on_tool_use(ps, flush_tool_use(ps.current_tool[1]), at)
                  EXCEPT !.current_tool = None]
          ELSE ps
        opened ==
          IF flushed.current_tool = None
          THEN [flushed EXCEPT !.current_tool =
                  Some([tool_use_id |-> ev.id, name |-> "fn", input_buffer |-> <<>>])]
          ELSE flushed
        pushed == push_input(opened, ev, at)
    IN  IF ev.stop /\ IsSome(pushed.current_tool)
        THEN [on_tool_use(pushed, flush_tool_use(pushed.current_tool[1]), at)
                EXCEPT !.current_tool = None]
        ELSE pushed

\* the toolUseEvent branch of parse_aws_event_stream
tool_use_event(ps, ev, at) == stop_tool(push_input(open_tool(ps, ev, at), ev, at), ev, at)

\* after the last chunk: the tool that is still active is flushed
end_of_stream(ps, at) ==
    IF IsSome(ps.current_tool)
    THEN LET active == ps.current_tool[1]
             taken == [ps EXCEPT !.current_tool = None]
         IN  IF active.tool_use_id \notin ps.processed_tool_ids
             THEN on_tool_use(taken, flush_tool_use(active), at)
             ELSE taken
    ELSE ps

\* the locals of parse_aws_event_stream at its start, no event read
NewParse ==
    [pc |-> "read", events |-> <<>>, current_tool |-> None,
     processed_tool_ids |-> {}, out |-> <<>>]

ToolsInit ==
    /\ vendor = "K"
    /\ now = 0
    /\ env_steps = 0
    /\ store = [id \in Accounts |-> "ok"]
    /\ current_id = None
    /\ config = DefaultConfig
    /\ pool = sync_accounts(EmptyPool, store, config)
    /\ running = TRUE
    /\ last = NoOp
    /\ quota_mark = None
    /\ run = <<>>
    /\ run_cursor = 0
    /\ req = IdleReq
    /\ stats = EmptyStats
    /\ recorded = <<>>
    /\ keys = NoKeys
    /\ server = RunningServer
    /\ tok = NoTok
    /\ conc = NoConc
    /\ sse = NewParse

\* the stream delivers one more toolUseEvent
ToolEvent ==
    /\ sse.pc = "read"
    /\ Len(sse.events) < MaxToolEvents
    /\ \E id \in ToolIds, input \in InputKinds, stops \in BOOLEAN :
          LET ev == [id |-> id, input |-> input, stop |-> stops]
              at == Len(sse.events) + 1
          IN  sse' = [tool_use_event(sse, ev, at) EXCEPT !.events = Append(@, ev)]
    /\ UNCHANGED <<notStream, vendor, now, env_steps, store, current_id, config, pool,
                   running, last, quota_mark, run, run_cursor, req, stats>>

\* the stream ends
ToolEnd ==
    /\ sse.pc = "read"
    /\ sse' = [end_of_stream(sse, Len(sse.events) + 1) EXCEPT !.pc = "ended"]
    /\ UNCHANGED <<notStream, vendor, now, env_steps, store, current_id, config, pool,
                   running, last, quota_mark, run, run_cursor, req, stats>>

NextTools ==
    \/ ToolEvent
    \/ ToolEnd

SpecTools == ToolsInit /\ [][NextTools]_vars

\* the inputs that the events of tool `id` up to event `at` carried, in
\* arrival order
RECURSIVE InputsOf(_, _)
InputsOf(id, at) ==
    IF at = 0 THEN <<>>
    ELSE IF at <= Len(sse.events) /\ sse.events[at].id = id /\ sse.events[at].input # "none"
         THEN Append(InputsOf(id, at - 1), [kind |-> sse.events[at].input, n |-> at])
         ELSE InputsOf(id, at - 1)

Strings(inputs) == SelectSeq(inputs, LAMBDA i : i.kind = "str")

Objects(inputs) == SelectSeq(inputs, LAMBDA i : i.kind = "obj")

\* the inputs from the last object or array on, or all of them
RECURSIVE FromLastObject(_)
FromLastObject(inputs) ==
    IF inputs = <<>> THEN <<>>
    ELSE IF Objects(Tail(inputs)) = <<>> THEN inputs
    ELSE FromLastObject(Tail(inputs))

\* an input as the ToolUse message shows it: no input at all is {}
Shown(inputs) == IF inputs = <<>> THEN EmptyObject ELSE inputs

\* every id is emitted at most once
EmittedOnce ==
    \A i, j \in 1..Len(sse.out) :
        sse.out[i].tool_use_id = sse.out[j].tool_use_id => i = j

\* a tool use is emitted at its stop event, at an event of another id, or at
\* the end of the stream; a stop event leaves its tool emitted, and so does
\* the end of the stream every tool that an event named
EmittedWhenDue ==
    /\ \A i \in 1..Len(sse.out) :
          LET m == sse.out[i]
          IN  IF m.at <= Len(sse.events)
              THEN \/ sse.events[m.at].id = m.tool_use_id /\ sse.events[m.at].stop
                   \/ sse.events[m.at].id # m.tool_use_id
              ELSE sse.pc = "ended"
    /\ \A e \in 1..Len(sse.events) :
          (sse.events[e].stop \/ sse.pc = "ended"
             \/ \E f \in e + 1..Len(sse.events) : sse.events[f].id # sse.events[e].id)
          => \E i \in 1..Len(sse.out) : sse.out[i].tool_use_id = sse.events[e].id

http_status(rq) ==
    IF rq.client = "503" THEN 503
    ELSE IF rq.client = "200" THEN 200
    ELSE IF rq.stream THEN 200
    ELSE rq.last_log[1].status

\* C36: when the pool yields no account for a chat request (pool empty),
\* the client receives HTTP status 503, for streaming and non-streaming
\* requests of both vendors.
C36_NoAccountIs503 ==
    (req.pc = "done" /\ req.no_account) => http_status(req) = 503

(***************************************************************************)
(* Concurrent chat requests and admin calls on the API keys of Vendor-K.   *)
(* A request is admitted under one read of the state and records its usage *)
(* under a later write lock; the admin calls run between the two.          *)
(***************************************************************************)

\* how many requests and admin calls one behaviour makes
MaxKeyCalls == 4

\* what a successful request costs, in units of half a credit
RequestCredits == {1, 3}

LargestCredits == CHOOSE c \in RequestCredits : \A d \in RequestCredits : d <= c

\* a caller with no request in flight
IdleKeyCall == [pc |-> "idle", api_key_id |-> None]

\* the admin operations on the key list
KeyOps == {"add_api_key", "update_api_key", "delete_api_key", "reset_api_key_usage"}

\* counted[id] is the number of successful requests recorded for key id since
\* it was created or reset; issued holds the uuids given out so far; snapshot
\* is the config an admin client got from GET /admin/config
KeysConcInit ==
    /\ vendor = "K"
    /\ now = AuthEpoch
    /\ env_steps = 0
    /\ store = [id \in Accounts |-> "ok"]
    /\ current_id = None
    /\ config = DefaultConfig
    /\ pool = EmptyPool
    /\ running = TRUE
    /\ last = NoOp
    /\ quota_mark = None
    /\ run = <<>>
    /\ run_cursor = 0
    /\ req = IdleReq
    /\ stats = EmptyStats
    /\ recorded = <<>>
    /\ keys \in [api_key : {None},
                 api_keys : {<<PersistedKey("k1", "s1", TRUE, Some(2), 0)>>,
                             <<PersistedKey("k1", "s1", TRUE, Some(2), 0),
                               PersistedKey("k2", "s2", TRUE, None, 0)>>}]
    /\ sse = IdleSse
    /\ server = RunningServer
    /\ tok = NoTok
    /\ conc = [calls |-> [c \in Callers |-> IdleKeyCall],
               snapshot |-> None,
               counted |-> [id \in KeyIds |-> 0],
               issued |-> {keys.api_keys[i].id : i \in 1..Len(keys.api_keys)}]

keysRest == <<ringVars, streamVars, tokVars, server, vendor, store, current_id, config,
              pool, running, quota_mark, run, run_cursor, req, stats>>

HasKey(cfg, id) == \E i \in 1..Len(cfg.api_keys) : cfg.api_keys[i].id = id

KeyOf(cfg, id) == cfg.api_keys[FirstIndex(cfg.api_keys, LAMBDA item : item.id = id)]

\* server.rs handle_openai_chat: verify_auth reads the config and admits the
\* request or answers 401 / 429
KeyCallVerify(c) ==
    /\ conc.calls[c].pc = "idle"
    /\ env_steps < MaxKeyCalls
    /\ \E provided \in Secrets :
          LET auth == validate_api_key(keys, Some(provided))
          IN  /\ last' = [op |-> "verify_auth", caller |-> c, ret |-> auth]
              /\ conc' = IF auth.valid
                         THEN [conc EXCEPT !.calls[c] =
                                 [pc |-> "upstream",
                                  api_key_id |-> IF IsSome(auth.matched)
                                                 THEN Some(auth.matched[1].id)
                                                 ELSE None]]
                         ELSE conc
    /\ env_steps' = env_steps + 1
    /\ UNCHANGED <<keysRest, keys, now>>

\* the upstream call of an admitted request ends: on success the handler
\* calls apply_api_key_usage, which takes the write lock and records
KeyCallFinish(c) ==
    /\ conc.calls[c].pc = "upstream"
    /\ \E ok \in BOOLEAN, credits \in RequestCredits :
          LET id == conc.calls[c].api_key_id
              counts == ok /\ IsSome(id) /\ HasKey(keys, id[1])
          IN  /\ keys' = IF ok THEN apply_api_key_usage(keys, id, credits, now) ELSE keys
              /\ last' = IF ok
                         THEN [op |-> "apply_api_key_usage", caller |-> c,
                               api_key_id |-> id, credits |-> credits, before |-> keys]
                         ELSE [op |-> "failed", caller |-> c]
              /\ conc' = [conc EXCEPT !.calls[c] = IdleKeyCall,
                                      !.counted = IF counts
                                                  THEN [@ EXCEPT ![id[1]] = @ + 1]
                                                  ELSE @]
    /\ now' = now + 1
    /\ UNCHANGED <<keysRest, env_steps>>

\* an admin call on the key list: the change is made to state.config under
\* the write lock and persist_config_locked follows; refused says that the
\* call returned before it changed anything, saved what save_user_config
\* returned
KeyAdmin(op, refused, changed, saved, counted, issued) ==
    /\ env_steps < MaxKeyCalls
    /\ keys' = IF refused THEN keys ELSE changed
    /\ last' = [op |-> op, before |-> keys,
                ret |-> IF refused \/ ~saved THEN "err" ELSE "ok"]
    /\ conc' = IF refused THEN conc
               ELSE [conc EXCEPT !.counted = counted, !.issued = issued]
    /\ env_steps' = env_steps + 1
    /\ UNCHANGED <<keysRest, now>>

KeyAdminAdd ==
    \E id \in KeyIds \ conc.issued, key \in Secrets \cup {" "}, saved \in BOOLEAN :
        KeyAdmin("add_api_key",
                 Trim(key) = ""
                    \/ \E i \in 1..Len(keys.api_keys) : keys.api_keys[i].key = Trim(key),
                 add_api_key(keys, id, key, TRUE, Some(2)), saved,
                 [conc.counted EXCEPT ![id] = 0], conc.issued \cup {id})

\* the admin of this model leaves the limits alone
KeyAdminUpdate ==
    \E id \in KeyIds, enabled \in Option(BOOLEAN), saved \in BOOLEAN :
        KeyAdmin("update_api_key", ~HasKey(keys, id),
                 update_api_key(keys, id, enabled, None), saved,
                 conc.counted, conc.issued)

KeyAdminDelete ==
    \E id \in KeyIds, saved \in BOOLEAN :
        KeyAdmin("delete_api_key", ~HasKey(keys, id),
                 delete_api_key(keys, id), saved, conc.counted, conc.issued)

KeyAdminReset ==
    \E id \in KeyIds, saved \in BOOLEAN :
        KeyAdmin("reset_api_key_usage", ~HasKey(keys, id),
                 reset_api_key_usage(keys, id), saved,
                 [conc.counted EXCEPT ![id] = 0], conc.issued)

\* GET /admin/config: get_config clones the config for the client
ConfigGet ==
    /\ env_steps < MaxKeyCalls
    /\ conc.snapshot # Some(keys)
    /\ conc' = [conc EXCEPT !.snapshot = Some(keys)]
    /\ last' = [op |-> "get_config"]
    /\ env_steps' = env_steps + 1
    /\ UNCHANGED <<keysRest, keys, now>>

\* update_config / update_config_without_restart (POST /admin/config) with
\* the config the client got earlier, whatever it changed of the other
\* settings; apply_config_patch: state.config = config_patch.clone()
ConfigUpdate ==
    /\ env_steps < MaxKeyCalls
    /\ IsSome(conc.snapshot)
    /\ keys' = conc.snapshot[1]
    /\ last' = [op |-> "update_config", before |-> keys]
    /\ env_steps' = env_steps + 1
    /\ UNCHANGED <<keysRest, conc, now>>

NextKeysConc ==
    \/ \E c \in Callers : KeyCallVerify(c)
    \/ \E c \in Callers : KeyCallFinish(c)
    \/ KeyAdminAdd
    \/ KeyAdminUpdate
    \/ KeyAdminDelete
    \/ KeyAdminReset
    \/ ConfigGet
    \/ ConfigUpdate

SpecKeysConc == KeysConcInit /\ [][NextKeysConc]_vars

\* C37: under any interleaving of concurrent requests that use the same API
\* key, the key's usage.total_credits never exceeds its credits_limit by
\* more than the credits of a single request.
C37_LimitOvershootBounded ==
    \A i \in 1..Len(keys.api_keys) :
        LET key == keys.api_keys[i]
        IN  IsSome(key.credits_limit)
                => key.usage.total_credits <= key.credits_limit[1] + LargestCredits

\* C38: per-key usage recorded by apply_api_key_usage is never lost: under
\* any interleaving of client requests with update_config,
\* update_config_without_restart and API-key CRUD, each existing key's
\* usage.total_requests equals the number of successful requests recorded
\* for that key since its creation or its last reset_api_key_usage.
C38_UsageNeverLost ==
    \A i \in 1..Len(keys.api_keys) :
        keys.api_keys[i].usage.total_requests = conc.counted[keys.api_keys[i].id]

\* C40: if add_api_key, update_api_key, delete_api_key or
\* reset_api_key_usage returns an error, the in-memory api_keys list and
\* every key's usage are exactly as they were before the call.
C40_FailedCallChangesNothing ==
    [][(last'.op \in KeyOps /\ last'.ret = "err") => keys' = keys]_vars

(***************************************************************************)
(* The upstream attempts behind one streaming response of Vendor-A.        *)
(***************************************************************************)

\* a content delta is among the events sent to the client
ContentSent(s) ==
    \E i \in 1..Len(s.out) : s.out[i].type = "chunk" /\ s.out[i].detail = "content"

\* the attempt loop takes an account for an upstream call
BeginsAttempt == vendor = "A" /\ sse.pc = "take" /\ sse'.pc = "call"

\* C39: a Vendor-A streaming client never receives content deltas
\* originating from more than one upstream attempt: once any content delta
\* of an attempt has been sent to the client, a later failure of that attempt
\* is not retried with another upstream call.
C39_NoRetryAfterContent ==
    [][BeginsAttempt => ~ContentSent(sse)]_vars

----------------------------------------------------------------------------
(* The model-mapping engine of Vendor-K: kiro_proxy/service.rs              *)
(* apply_model_mapping and wildcard_match.  A model name or a pattern is a  *)
(* sequence of ASCII characters.                                            *)

\* how many rules config.model_mappings holds
MaxRules == 2

\* char::to_ascii_lowercase on the characters of the model
to_lower(c) == IF c = "A" THEN "a" ELSE IF c = "B" THEN "b" ELSE c

\* str::eq_ignore_ascii_case
eq_ignore_ascii_case(a, b) ==
    Len(a) = Len(b) /\ \A i \in 1..Len(a) : to_lower(a[i]) = to_lower(b[i])

\* Regex "(?i)^escaped$" with every \* replaced by .* : does it match input
RECURSIVE regex_is_match(_, _)
regex_is_match(pattern, input) ==
    IF pattern = <<>> THEN input = <<>>
    ELSE IF Head(pattern) = "*"
    THEN \/ regex_is_match(Tail(pattern), input)
         \/ input # <<>> /\ regex_is_match(pattern, Tail(input))
    ELSE /\ input # <<>>
         /\ to_lower(Head(pattern)) = to_lower(Head(input))
         /\ regex_is_match(Tail(pattern), Tail(input))

\* wildcard_match
wildcard_match(pattern, input) ==
    IF pattern = <<"*">> THEN TRUE
    ELSE IF "*" \notin SeqToSet(pattern) THEN eq_ignore_ascii_case(pattern, input)
    ELSE regex_is_match(pattern, input)

\* the positions of the rules in the order of sorted.sort_by_key(priority):
\* a stable sort, ties stay in configuration order
RECURSIVE sort_by_key(_, _)
sort_by_key(mappings, left) ==
    IF left = {} THEN <<>>
    ELSE LET i == CHOOSE i \in left :
                    \A j \in left :
                       \/ mappings[i].priority < mappings[j].priority
                       \/ mappings[i].priority = mappings[j].priority /\ i <= j
         IN  <<i>> \o sort_by_key(mappings, left \ {i})

\* target_models with the blank items filtered out
non_blank(target_models) ==
    SelectSeq(target_models, LAMBDA item : \E i \in 1..Len(item) : item[i] # " ")

\* the targets a loadbalance rule may draw: with weights of positive sum the
\* weighted walk stops at index 0 (random = 0) or at an index of positive
\* weight, and an index beyond the targets gives targets[0]; otherwise any
\* target
loadbalance_targets(rule, targets) ==
    LET weighted == rule.weights # <<>> /\ \E i \in 1..Len(rule.weights) : rule.weights[i] > 0
        stops == {1} \cup {i \in 1..Len(rule.weights) : rule.weights[i] > 0}
    IN  IF weighted
        THEN {IF i <= Len(targets) THEN targets[i] ELSE targets[1] : i \in stops}
        ELSE SeqToSet(targets)

\* does the loop of apply_model_mapping pass this rule by
passed_by(rule, requested_model, api_key_id) ==
    \/ ~rule.enabled
    \/ rule.api_key_ids # <<>>
       /\ (~IsSome(api_key_id) \/ api_key_id[1] \notin SeqToSet(rule.api_key_ids))
    \/ ~wildcard_match(rule.source_model, requested_model)
    \/ non_blank(rule.target_models) = <<>>

\* the loop over the sorted rules: the set of models it may return
RECURSIVE mapping_loop(_, _, _, _)
mapping_loop(mappings, order, requested_model, api_key_id) ==
    IF order = <<>> THEN {requested_model}
    ELSE LET rule == mappings[Head(order)]
             targets == non_blank(rule.target_models)
         IN  IF passed_by(rule, requested_model, api_key_id)
             THEN mapping_loop(mappings, Tail(order), requested_model, api_key_id)
             ELSE IF rule.mapping_type = "loadbalance" /\ Len(targets) > 1
             THEN loadbalance_targets(rule, targets)
             ELSE {targets[1]}

\* apply_model_mapping with the rules taken in configuration order
apply_model_mapping_unsorted(mappings, requested_model, api_key_id) ==
    mapping_loop(mappings, [i \in 1..Len(mappings) |-> i], requested_model, api_key_id)

\* apply_model_mapping: the set of models a call may return (one model,
\* unless a loadbalance rule with several targets decides)
apply_model_mapping(mappings, requested_model, api_key_id) ==
    IF mappings = <<>> THEN {requested_model}
    ELSE mapping_loop(mappings, sort_by_key(mappings, 1..Len(mappings)),
                      requested_model, api_key_id)

\* the two targets the rule at position i names
TargetT(i) == <<"t", <<"1", "2", "3">>[i]>>

TargetU(i) == <<"u", <<"1", "2", "3">>[i]>>

\* the rule at position i that replaces everything starting with "a" by its
\* own target, and the rules that differ from it in one field
PlainRule(i) ==
    [enabled |-> TRUE, mapping_type |-> "replace", source_model |-> <<"a", "*">>,
     target_models |-> <<<<" ">>, TargetT(i)>>, weights |-> <<>>, priority |-> 1,
     api_key_ids |-> <<>>]

RuleChoices(i) ==
    LET plain == PlainRule(i)
        bases == {plain,
                  [plain EXCEPT !.enabled = FALSE],
                  [plain EXCEPT !.api_key_ids = <<"k1">>],
                  [plain EXCEPT !.source_model = <<"*">>],
                  [plain EXCEPT !.source_model = <<"A", "B">>],
                  [plain EXCEPT !.source_model = <<"*", "b", "*">>],
                  [plain EXCEPT !.target_models = <<<<" ">>>>],
                  [plain EXCEPT !.mapping_type = "loadbalance",
                                !.target_models = <<TargetT(i), TargetU(i)>>],
                  [plain EXCEPT !.mapping_type = "loadbalance",
                                !.target_models = <<TargetT(i), TargetU(i)>>,
                                !.weights = <<0, 1>>]}
    IN  {[b EXCEPT !.priority = p] : b \in bases, p \in {1, 2}}

\* config.model_mappings: up to MaxRules rules
MappingLists ==
    UNION {{m \in [1..n -> UNION {RuleChoices(i) : i \in 1..n}] :
               \A i \in 1..n : m[i] \in RuleChoices(i)} : n \in 0..MaxRules}

\* the models a request names
RequestedModels == {<<"a", "b">>, <<"A", "a">>, <<"b">>}

\* the configuration with its model_mappings field
WithMappings(cfg, mappings) ==
    [f \in DOMAIN cfg \cup {"model_mappings"} |->
        IF f = "model_mappings" THEN mappings ELSE cfg[f]]

\* a running Vendor-K service whose configuration holds a list of rules
MappingInit ==
    /\ vendor = "K"
    /\ now = 0
    /\ env_steps = 0
    /\ store = [id \in Accounts |-> "ok"]
    /\ current_id = None
    /\ config \in {WithMappings(DefaultConfig, m) : m \in MappingLists}
    /\ pool = EmptyPool
    /\ running = TRUE
    /\ last = NoOp
    /\ quota_mark = None
    /\ run = <<>>
    /\ run_cursor = 0
    /\ req = IdleReq
    /\ stats = EmptyStats
    /\ recorded = <<>>
    /\ keys = NoKeys
    /\ sse = IdleSse
    /\ server = RunningServer
    /\ tok = NoTok
    /\ conc = NoConc

\* model_mapping_for at the head of a chat handler
MapModel ==
    /\ \E model \in RequestedModels, api_key_id \in Option(KeyIds) :
          \E ret \in apply_model_mapping(config.model_mappings, model, api_key_id) :
             last' = [op |-> "apply_model_mapping", model |-> model,
                      api_key_id |-> api_key_id, ret |-> ret]
    /\ UNCHANGED <<extVars, server, vendor, now, env_steps, store, current_id, config,
                   pool, running, quota_mark, run, run_cursor, req, stats>>

NextMapping ==
    \/ MapModel

SpecMapping == MappingInit /\ [][NextMapping]_vars

\* "pattern matches model": case-insensitive, every '*' any substring.  For
\* the patterns of the model: no star is equality, "*" is everything, "a*" is
\* a prefix, "*b*" is containment.
Matches(pattern, model) ==
    LET low(seq) == [i \in 1..Len(seq) |-> to_lower(seq[i])]
        p == low(pattern)
        m == low(model)
    IN  IF p = <<"*">> THEN TRUE
        ELSE IF p = <<"a", "*">> THEN Len(m) >= 1 /\ m[1] = "a"
        ELSE IF p = <<"*", "b", "*">> THEN \E i \in 1..Len(m) : m[i] = "b"
        ELSE p = m

\* the rule at position i is enabled, open to the tenant and
\* its pattern matches the requested model
Applies(i) ==
    LET rule == config.model_mappings[i]
    IN  /\ rule.enabled
        /\ \/ rule.api_key_ids = <<>>
           \/ \E k \in 1..Len(rule.api_key_ids) : <<rule.api_key_ids[k]>> = last.api_key_id
        /\ Matches(rule.source_model, last.model)

\* a target of nothing but white space
Blank(target) == \A c \in 1..Len(target) : target[c] = " "

\* the rule at position i has a target that is not blank
HasTarget(i) ==
    \E k \in 1..Len(config.model_mappings[i].target_models) :
        ~Blank(config.model_mappings[i].target_models[k])

\* rule i comes before rule j: lower priority first, ties in configuration order
Before(i, j) ==
    \/ config.model_mappings[i].priority < config.model_mappings[j].priority
    \/ config.model_mappings[i].priority = config.model_mappings[j].priority /\ i < j

\* the result is the first target of rule i that is not blank
IsFirstTarget(i) ==
    \E k \in 1..Len(config.model_mappings[i].target_models) :
        /\ config.model_mappings[i].target_models[k] = last.ret
        /\ ~Blank(last.ret)
        /\ \A h \in 1..(k - 1) : Blank(config.model_mappings[i].target_models[h])

\* C20 as stated: the first rule in ascending priority (ties in configuration
\* order) that is enabled, open to the tenant and whose pattern matches
\* decides; a replace rule gives its first non-blank target; no such rule,
\* the requested model comes back unchanged.
C20_Original ==
    last.op = "apply_model_mapping" =>
        LET rules == 1..Len(config.model_mappings)
            first == {i \in rules : Applies(i) /\ \A j \in rules \ {i} : Applies(j) => Before(i, j)}
        IN  /\ \A i \in first :
                  config.model_mappings[i].mapping_type = "replace" => IsFirstTarget(i)
            /\ first = {} => last.ret = last.model

\* C20: apply_model_mapping considers the rules in ascending priority (ties
\* in configuration order); the first rule that is enabled, whose api_key_ids
\* is empty or contains the tenant id, whose source_model pattern matches the
\* requested model (case-insensitive, '*' any substring) and that has a
\* non-blank target decides; a replace rule gives its first non-blank target,
\* the same on every call; if no such rule exists the requested model is
\* returned unchanged.
C20_FirstMatchDecides ==
    last.op = "apply_model_mapping" =>
        LET rules == 1..Len(config.model_mappings)
            deciding(i) == Applies(i) /\ HasTarget(i)
            first == {i \in rules : deciding(i) /\ \A j \in rules \ {i} : deciding(j) => Before(i, j)}
        IN  /\ \A i \in first :
                  IF config.model_mappings[i].mapping_type = "replace"
                  THEN IsFirstTarget(i)
                  ELSE \E k \in 1..Len(config.model_mappings[i].target_models) :
                          config.model_mappings[i].target_models[k] = last.ret
            /\ first = {} => last.ret = last.model

\* the second rule of the list, of lower priority number, decided although
\* the first one matches too
C20_Witness ==
    /\ last.op = "apply_model_mapping"
    /\ Len(config.model_mappings) = 2
    /\ Applies(1) /\ HasTarget(1)
    /\ Applies(2) /\ HasTarget(2)
    /\ config.model_mappings[2].priority < config.model_mappings[1].priority
    /\ config.model_mappings[2].mapping_type = "replace"
    /\ last.ret = <<"t", "2">>

----------------------------------------------------------------------------
(* Properties of the account pool *)

\* the account's cooldown deadline lies in the future
Cooling(id) ==
    /\ id \in PoolIds(pool)
    /\ IsSome(pool.accounts[id].cooldown_until)
    /\ pool.accounts[id].cooldown_until[1] > now

AllCooling == \A id \in PoolIds(pool) : Cooling(id)

Returned == last.op = "next_account" /\ IsSome(last.ret)

\* the cooldown that the marked record_error(id, true) set is still the
\* account's cooldown
MarkStands ==
    /\ IsSome(quota_mark)
    /\ quota_mark[1].id \in PoolIds(pool)
    /\ pool.accounts[quota_mark[1].id].cooldown_until =
          Some(quota_mark[1].at + cooldown_seconds(vendor, TRUE))

\* C1 (as amended): next_account, in either mode and for either vendor, never
\* returns an account whose cooldown_until > now unless every account of the
\* pool is in cooldown; so after record_error(id, true) at time t, and for as
\* long as the cooldown that call set stands, id is not returned before
\* t + COOLDOWN_QUOTA unless all accounts are in cooldown.
C1_CooldownRespected ==
    Returned =>
        /\ last.ret[1] \in PoolIds(pool)
        /\ (Cooling(last.ret[1]) => AllCooling)
        /\ (MarkStands /\ now < quota_mark[1].at + cooldown_seconds(vendor, TRUE)
              /\ last.ret[1] = quota_mark[1].id
            => AllCooling)

\* next_account passed over the account that a standing quota cooldown covers
\* and returned another one
C1_Witness ==
    /\ Returned
    /\ MarkStands
    /\ now > quota_mark[1].at
    /\ now < quota_mark[1].at + cooldown_seconds(vendor, TRUE)
    /\ last.ret[1] # quota_mark[1].id
    /\ ~AllCooling

\* C1 (as stated): after record_error(id, true) the account id is not returned
\* for the next COOLDOWN_QUOTA seconds unless all accounts are in cooldown,
\* whatever happens to the pool in between.
C1_Original ==
    (Returned /\ IsSome(quota_mark)
       /\ now < quota_mark[1].at + cooldown_seconds(vendor, TRUE)
       /\ last.ret[1] = quota_mark[1].id)
    => AllCooling

\* C2: in multi-account mode on a pool of N accounts none of which is in
\* cooldown, N consecutive next_account calls (no order-changing sync and no
\* record_error in between) return every account exactly once, in pool order
\* starting from the cursor.
C2_RotationFair ==
    LET N == Len(pool.order) IN
    run # <<>> =>
        /\ Len(run) <= N
        /\ \A k \in 1..Len(run) :
              run[k] = Some(pool.order[((run_cursor + k - 1) % N) + 1])
        /\ (Len(run) = N =>
              \A id \in SeqToSet(pool.order) :
                 Cardinality({k \in 1..N : run[k] = Some(id)}) = 1)

\* a rotation over a pool of three accounts, begun in the middle of the order,
\* has been completed
C2_Witness ==
    /\ Len(pool.order) = 3
    /\ Len(run) = 3
    /\ run_cursor = 1

\* the account the single-account mode prefers: Vendor-K the first of
\* selected_account_ids, Vendor-A the current account; order.first() when
\* that one is not in the pool
Preferred ==
    LET wanted == IF vendor = "K"
                  THEN (IF config.selected_account_ids = <<>> THEN None
                        ELSE Some(config.selected_account_ids[1]))
                  ELSE last.cur
    IN IF IsSome(wanted) /\ wanted[1] \in PoolIds(pool)
       THEN wanted[1]
       ELSE pool.order[1]

\* C9 (as amended): with enable_multi_account = false next_account returns
\* the preferred account whenever that account is not in cooldown; when it is
\* in cooldown the call returns an account of the pool whose remaining
\* cooldown is the least, which is another account if one is free.
C9_SingleMode ==
    (Returned /\ ~config.enable_multi_account) =>
        IF Cooling(Preferred)
        THEN /\ last.ret[1] \in PoolIds(pool)
             /\ \A j \in PoolIds(pool) :
                   cooldown_key(pool.accounts[last.ret[1]], now)
                      <= cooldown_key(pool.accounts[j], now)
        ELSE last.ret[1] = Preferred

\* single mode, the preferred account is free and is not the first of the
\* pool order, and it was returned
C9_Witness ==
    /\ Returned
    /\ ~config.enable_multi_account
    /\ Len(pool.order) >= 2
    /\ Preferred # pool.order[1]
    /\ ~Cooling(Preferred)
    /\ last.ret[1] = Preferred

\* C9 (as stated): with enable_multi_account = false next_account returns the
\* preferred account and no other id, whatever the cooldown state.
C9_Original ==
    (Returned /\ ~config.enable_multi_account) => last.ret[1] = Preferred

====
